---- MODULE Spec2Model ----
(***************************************************************************)
(* Chain-of-Retrieval agent (src/src/agent/chain_of_rag.py) with its       *)
(* collection router (src/src/agent/collection_router.py) and the Milvus   *)
(* store boundary (src/src/vector_db/milvus.py), as a state machine.       *)
(*                                                                         *)
(* Text is modelled structurally:                                          *)
(*   - a chat reply is [think, text]: an optional reasoning block and the  *)
(*     text that follows it;                                               *)
(*   - reflection replies are sequences of code points, so that           *)
(*     strip() and lower() are computed character by character;            *)
(*   - intermediate answers are sequences of text chunks, so that the      *)
(*     substring test of _get_supported_docs is a search for a chunk;      *)
(*   - a reply that must be a Python literal is [kind, val]: kind "list"   *)
(*     carries the parsed list, any other kind does not parse.             *)
(***************************************************************************)
EXTENDS Integers, Sequences, FiniteSets, TLC

\* ------------------------------------------------------------------ bounds
MaxIterBound == 2      \* largest max_iter (configured or per call) explored
MaxTokens == 2         \* a chat call reports 1 or MaxTokens total_tokens

\* --------------------------------------------------------------- constants
\* TongyiEmbedding.dim
dimension == 1024
\* the dimension of a collection built with another embedding model
OtherDim == dimension \div 2

None == "None"
default_collection == "src"

\* ------------------------------------------------------------ text helpers
\* A character is its Unicode code point.
\* str.strip(): the characters c with c.isspace()
Whitespace ==
    { 9, 10, 11, 12, 13, 28, 29, 30, 31, 32, 133, 160, 5760, 8192, 8193, 8194, 8195, 8196, 8197, 8198, 8199, 8200, 8201, 8202, 8232, 8233, 8239, 8287, 12288 }

\* str.lower(), one character: the runs << first, last, step, offset >> of
\* the characters that lower to one other character (every step-th character
\* from first to last lowers to itself plus offset)
LowerRuns ==
    { << 65, 90, 1, 32 >>, << 192, 214, 1, 32 >>, << 216, 222, 1, 32 >>,
      << 256, 302, 2, 1 >>, << 306, 310, 2, 1 >>, << 313, 327, 2, 1 >>,
      << 330, 374, 2, 1 >>, << 376, 376, 1, -121 >>, << 377, 381, 2, 1 >>,
      << 385, 385, 1, 210 >>, << 386, 388, 2, 1 >>, << 390, 390, 1, 206 >>,
      << 391, 391, 1, 1 >>, << 393, 394, 1, 205 >>, << 395, 395, 1, 1 >>,
      << 398, 398, 1, 79 >>, << 399, 399, 1, 202 >>, << 400, 400, 1, 203 >>,
      << 401, 401, 1, 1 >>, << 403, 403, 1, 205 >>, << 404, 404, 1, 207 >>,
      << 406, 406, 1, 211 >>, << 407, 407, 1, 209 >>, << 408, 408, 1, 1 >>,
      << 412, 412, 1, 211 >>, << 413, 413, 1, 213 >>, << 415, 415, 1, 214 >>,
      << 416, 420, 2, 1 >>, << 422, 422, 1, 218 >>, << 423, 423, 1, 1 >>,
      << 425, 425, 1, 218 >>, << 428, 428, 1, 1 >>, << 430, 430, 1, 218 >>,
      << 431, 431, 1, 1 >>, << 433, 434, 1, 217 >>, << 435, 437, 2, 1 >>,
      << 439, 439, 1, 219 >>, << 440, 440, 1, 1 >>, << 444, 444, 1, 1 >>,
      << 452, 452, 1, 2 >>, << 453, 453, 1, 1 >>, << 455, 455, 1, 2 >>,
      << 456, 456, 1, 1 >>, << 458, 458, 1, 2 >>, << 459, 475, 2, 1 >>,
      << 478, 494, 2, 1 >>, << 497, 497, 1, 2 >>, << 498, 500, 2, 1 >>,
      << 502, 502, 1, -97 >>, << 503, 503, 1, -56 >>, << 504, 542, 2, 1 >>,
      << 544, 544, 1, -130 >>, << 546, 562, 2, 1 >>, << 570, 570, 1, 10795 >>,
      << 571, 571, 1, 1 >>, << 573, 573, 1, -163 >>, << 574, 574, 1, 10792 >>,
      << 577, 577, 1, 1 >>, << 579, 579, 1, -195 >>, << 580, 580, 1, 69 >>,
      << 581, 581, 1, 71 >>, << 582, 590, 2, 1 >>, << 880, 882, 2, 1 >>,
      << 886, 886, 1, 1 >>, << 895, 895, 1, 116 >>, << 902, 902, 1, 38 >>,
      << 904, 906, 1, 37 >>, << 908, 908, 1, 64 >>, << 910, 911, 1, 63 >>,
      << 913, 929, 1, 32 >>, << 931, 939, 1, 32 >>, << 975, 975, 1, 8 >>,
      << 984, 1006, 2, 1 >>, << 1012, 1012, 1, -60 >>, << 1015, 1015, 1, 1 >>,
      << 1017, 1017, 1, -7 >>, << 1018, 1018, 1, 1 >>, << 1021, 1023, 1, -130 >>,
      << 1024, 1039, 1, 80 >>, << 1040, 1071, 1, 32 >>, << 1120, 1152, 2, 1 >>,
      << 1162, 1214, 2, 1 >>, << 1216, 1216, 1, 15 >>, << 1217, 1229, 2, 1 >>,
      << 1232, 1326, 2, 1 >>, << 1329, 1366, 1, 48 >>, << 4256, 4293, 1, 7264 >>,
      << 4295, 4295, 1, 7264 >>, << 4301, 4301, 1, 7264 >>, << 5024, 5103, 1, 38864 >>,
      << 5104, 5109, 1, 8 >>, << 7312, 7354, 1, -3008 >>, << 7357, 7359, 1, -3008 >>,
      << 7680, 7828, 2, 1 >>, << 7838, 7838, 1, -7615 >>, << 7840, 7934, 2, 1 >>,
      << 7944, 7951, 1, -8 >>, << 7960, 7965, 1, -8 >>, << 7976, 7983, 1, -8 >>,
      << 7992, 7999, 1, -8 >>, << 8008, 8013, 1, -8 >>, << 8025, 8031, 2, -8 >>,
      << 8040, 8047, 1, -8 >>, << 8072, 8079, 1, -8 >>, << 8088, 8095, 1, -8 >>,
      << 8104, 8111, 1, -8 >>, << 8120, 8121, 1, -8 >>, << 8122, 8123, 1, -74 >>,
      << 8124, 8124, 1, -9 >>, << 8136, 8139, 1, -86 >>, << 8140, 8140, 1, -9 >>,
      << 8152, 8153, 1, -8 >>, << 8154, 8155, 1, -100 >>, << 8168, 8169, 1, -8 >>,
      << 8170, 8171, 1, -112 >>, << 8172, 8172, 1, -7 >>, << 8184, 8185, 1, -128 >>,
      << 8186, 8187, 1, -126 >>, << 8188, 8188, 1, -9 >>, << 8486, 8486, 1, -7517 >>,
      << 8490, 8490, 1, -8383 >>, << 8491, 8491, 1, -8262 >>, << 8498, 8498, 1, 28 >>,
      << 8544, 8559, 1, 16 >>, << 8579, 8579, 1, 1 >>, << 9398, 9423, 1, 26 >>,
      << 11264, 11311, 1, 48 >>, << 11360, 11360, 1, 1 >>, << 11362, 11362, 1, -10743 >>,
      << 11363, 11363, 1, -3814 >>, << 11364, 11364, 1, -10727 >>, << 11367, 11371, 2, 1 >>,
      << 11373, 11373, 1, -10780 >>, << 11374, 11374, 1, -10749 >>, << 11375, 11375, 1, -10783 >>,
      << 11376, 11376, 1, -10782 >>, << 11378, 11378, 1, 1 >>, << 11381, 11381, 1, 1 >>,
      << 11390, 11391, 1, -10815 >>, << 11392, 11490, 2, 1 >>, << 11499, 11501, 2, 1 >>,
      << 11506, 11506, 1, 1 >>, << 42560, 42604, 2, 1 >>, << 42624, 42650, 2, 1 >>,
      << 42786, 42798, 2, 1 >>, << 42802, 42862, 2, 1 >>, << 42873, 42875, 2, 1 >>,
      << 42877, 42877, 1, -35332 >>, << 42878, 42886, 2, 1 >>, << 42891, 42891, 1, 1 >>,
      << 42893, 42893, 1, -42280 >>, << 42896, 42898, 2, 1 >>, << 42902, 42920, 2, 1 >>,
      << 42922, 42922, 1, -42308 >>, << 42923, 42923, 1, -42319 >>, << 42924, 42924, 1, -42315 >>,
      << 42925, 42925, 1, -42305 >>, << 42926, 42926, 1, -42308 >>, << 42928, 42928, 1, -42258 >>,
      << 42929, 42929, 1, -42282 >>, << 42930, 42930, 1, -42261 >>, << 42931, 42931, 1, 928 >>,
      << 42932, 42946, 2, 1 >>, << 42948, 42948, 1, -48 >>, << 42949, 42949, 1, -42307 >>,
      << 42950, 42950, 1, -35384 >>, << 42951, 42953, 2, 1 >>, << 42960, 42960, 1, 1 >>,
      << 42966, 42968, 2, 1 >>, << 42997, 42997, 1, 1 >>, << 65313, 65338, 1, 32 >>,
      << 66560, 66599, 1, 40 >>, << 66736, 66771, 1, 40 >>, << 66928, 66938, 1, 39 >>,
      << 66940, 66954, 1, 39 >>, << 66956, 66962, 1, 39 >>, << 66964, 66965, 1, 39 >>,
      << 68736, 68786, 1, 64 >>, << 71840, 71871, 1, 32 >>, << 93760, 93791, 1, 32 >>,
      << 125184, 125217, 1, 34 >> }

\* U+0130 lowers to two characters
DOTTED_CAPITAL_I == 304
LowerOfDottedCapitalI == << 105, 775 >>

\* str.lower() of one character, as the characters it lowers to
LowerChar(c) ==
    IF c = DOTTED_CAPITAL_I THEN LowerOfDottedCapitalI
    ELSE IF c < 65 \/ (c > 90 /\ c < 192) THEN << c >>
    ELSE IF \E r \in LowerRuns :
              r[1] <= c /\ c <= r[2] /\ (c - r[1]) % r[3] = 0
    THEN << c + (CHOOSE r \in LowerRuns :
                   r[1] <= c /\ c <= r[2] /\ (c - r[1]) % r[3] = 0)[4] >>
    ELSE << c >>

\* the ranges << first, last >> of the case-ignorable characters
CaseIgnorableRanges ==
    { << 39, 39 >>, << 46, 46 >>, << 58, 58 >>, << 94, 94 >>, << 96, 96 >>,
      << 168, 168 >>, << 173, 173 >>, << 175, 175 >>, << 180, 180 >>, << 183, 184 >>,
      << 688, 879 >>, << 884, 885 >>, << 890, 890 >>, << 900, 901 >>, << 903, 903 >>,
      << 1155, 1161 >>, << 1369, 1369 >>, << 1375, 1375 >>, << 1425, 1469 >>, << 1471, 1471 >>,
      << 1473, 1474 >>, << 1476, 1477 >>, << 1479, 1479 >>, << 1524, 1524 >>, << 1536, 1541 >>,
      << 1552, 1562 >>, << 1564, 1564 >>, << 1600, 1600 >>, << 1611, 1631 >>, << 1648, 1648 >>,
      << 1750, 1757 >>, << 1759, 1768 >>, << 1770, 1773 >>, << 1807, 1807 >>, << 1809, 1809 >>,
      << 1840, 1866 >>, << 1958, 1968 >>, << 2027, 2037 >>, << 2042, 2042 >>, << 2045, 2045 >>,
      << 2070, 2093 >>, << 2137, 2139 >>, << 2184, 2184 >>, << 2192, 2193 >>, << 2200, 2207 >>,
      << 2249, 2306 >>, << 2362, 2362 >>, << 2364, 2364 >>, << 2369, 2376 >>, << 2381, 2381 >>,
      << 2385, 2391 >>, << 2402, 2403 >>, << 2417, 2417 >>, << 2433, 2433 >>, << 2492, 2492 >>,
      << 2497, 2500 >>, << 2509, 2509 >>, << 2530, 2531 >>, << 2558, 2558 >>, << 2561, 2562 >>,
      << 2620, 2620 >>, << 2625, 2626 >>, << 2631, 2632 >>, << 2635, 2637 >>, << 2641, 2641 >>,
      << 2672, 2673 >>, << 2677, 2677 >>, << 2689, 2690 >>, << 2748, 2748 >>, << 2753, 2757 >>,
      << 2759, 2760 >>, << 2765, 2765 >>, << 2786, 2787 >>, << 2810, 2815 >>, << 2817, 2817 >>,
      << 2876, 2876 >>, << 2879, 2879 >>, << 2881, 2884 >>, << 2893, 2893 >>, << 2901, 2902 >>,
      << 2914, 2915 >>, << 2946, 2946 >>, << 3008, 3008 >>, << 3021, 3021 >>, << 3072, 3072 >>,
      << 3076, 3076 >>, << 3132, 3132 >>, << 3134, 3136 >>, << 3142, 3144 >>, << 3146, 3149 >>,
      << 3157, 3158 >>, << 3170, 3171 >>, << 3201, 3201 >>, << 3260, 3260 >>, << 3263, 3263 >>,
      << 3270, 3270 >>, << 3276, 3277 >>, << 3298, 3299 >>, << 3328, 3329 >>, << 3387, 3388 >>,
      << 3393, 3396 >>, << 3405, 3405 >>, << 3426, 3427 >>, << 3457, 3457 >>, << 3530, 3530 >>,
      << 3538, 3540 >>, << 3542, 3542 >>, << 3633, 3633 >>, << 3636, 3642 >>, << 3654, 3662 >>,
      << 3761, 3761 >>, << 3764, 3772 >>, << 3782, 3782 >>, << 3784, 3789 >>, << 3864, 3865 >>,
      << 3893, 3893 >>, << 3895, 3895 >>, << 3897, 3897 >>, << 3953, 3966 >>, << 3968, 3972 >>,
      << 3974, 3975 >>, << 3981, 3991 >>, << 3993, 4028 >>, << 4038, 4038 >>, << 4141, 4144 >>,
      << 4146, 4151 >>, << 4153, 4154 >>, << 4157, 4158 >>, << 4184, 4185 >>, << 4190, 4192 >>,
      << 4209, 4212 >>, << 4226, 4226 >>, << 4229, 4230 >>, << 4237, 4237 >>, << 4253, 4253 >>,
      << 4348, 4348 >>, << 4957, 4959 >>, << 5906, 5908 >>, << 5938, 5939 >>, << 5970, 5971 >>,
      << 6002, 6003 >>, << 6068, 6069 >>, << 6071, 6077 >>, << 6086, 6086 >>, << 6089, 6099 >>,
      << 6103, 6103 >>, << 6109, 6109 >>, << 6155, 6159 >>, << 6211, 6211 >>, << 6277, 6278 >>,
      << 6313, 6313 >>, << 6432, 6434 >>, << 6439, 6440 >>, << 6450, 6450 >>, << 6457, 6459 >>,
      << 6679, 6680 >>, << 6683, 6683 >>, << 6742, 6742 >>, << 6744, 6750 >>, << 6752, 6752 >>,
      << 6754, 6754 >>, << 6757, 6764 >>, << 6771, 6780 >>, << 6783, 6783 >>, << 6823, 6823 >>,
      << 6832, 6862 >>, << 6912, 6915 >>, << 6964, 6964 >>, << 6966, 6970 >>, << 6972, 6972 >>,
      << 6978, 6978 >>, << 7019, 7027 >>, << 7040, 7041 >>, << 7074, 7077 >>, << 7080, 7081 >>,
      << 7083, 7085 >>, << 7142, 7142 >>, << 7144, 7145 >>, << 7149, 7149 >>, << 7151, 7153 >>,
      << 7212, 7219 >>, << 7222, 7223 >>, << 7288, 7293 >>, << 7376, 7378 >>, << 7380, 7392 >>,
      << 7394, 7400 >>, << 7405, 7405 >>, << 7412, 7412 >>, << 7416, 7417 >>, << 7468, 7530 >>,
      << 7544, 7544 >>, << 7579, 7679 >>, << 8125, 8125 >>, << 8127, 8129 >>, << 8141, 8143 >>,
      << 8157, 8159 >>, << 8173, 8175 >>, << 8189, 8190 >>, << 8203, 8207 >>, << 8216, 8217 >>,
      << 8228, 8228 >>, << 8231, 8231 >>, << 8234, 8238 >>, << 8288, 8292 >>, << 8294, 8303 >>,
      << 8305, 8305 >>, << 8319, 8319 >>, << 8336, 8348 >>, << 8400, 8432 >>, << 11388, 11389 >>,
      << 11503, 11505 >>, << 11631, 11631 >>, << 11647, 11647 >>, << 11744, 11775 >>, << 11823, 11823 >>,
      << 12293, 12293 >>, << 12330, 12333 >>, << 12337, 12341 >>, << 12347, 12347 >>, << 12441, 12446 >>,
      << 12540, 12542 >>, << 40981, 40981 >>, << 42232, 42237 >>, << 42508, 42508 >>, << 42607, 42610 >>,
      << 42612, 42621 >>, << 42623, 42623 >>, << 42652, 42655 >>, << 42736, 42737 >>, << 42752, 42785 >>,
      << 42864, 42864 >>, << 42888, 42890 >>, << 42994, 42996 >>, << 43000, 43001 >>, << 43010, 43010 >>,
      << 43014, 43014 >>, << 43019, 43019 >>, << 43045, 43046 >>, << 43052, 43052 >>, << 43204, 43205 >>,
      << 43232, 43249 >>, << 43263, 43263 >>, << 43302, 43309 >>, << 43335, 43345 >>, << 43392, 43394 >>,
      << 43443, 43443 >>, << 43446, 43449 >>, << 43452, 43453 >>, << 43471, 43471 >>, << 43493, 43494 >>,
      << 43561, 43566 >>, << 43569, 43570 >>, << 43573, 43574 >>, << 43587, 43587 >>, << 43596, 43596 >>,
      << 43632, 43632 >>, << 43644, 43644 >>, << 43696, 43696 >>, << 43698, 43700 >>, << 43703, 43704 >>,
      << 43710, 43711 >>, << 43713, 43713 >>, << 43741, 43741 >>, << 43756, 43757 >>, << 43763, 43764 >>,
      << 43766, 43766 >>, << 43867, 43871 >>, << 43881, 43883 >>, << 44005, 44005 >>, << 44008, 44008 >>,
      << 44013, 44013 >>, << 64286, 64286 >>, << 64434, 64450 >>, << 65024, 65039 >>, << 65043, 65043 >>,
      << 65056, 65071 >>, << 65106, 65106 >>, << 65109, 65109 >>, << 65279, 65279 >>, << 65287, 65287 >>,
      << 65294, 65294 >>, << 65306, 65306 >>, << 65342, 65342 >>, << 65344, 65344 >>, << 65392, 65392 >>,
      << 65438, 65439 >>, << 65507, 65507 >>, << 65529, 65531 >>, << 66045, 66045 >>, << 66272, 66272 >>,
      << 66422, 66426 >>, << 67456, 67461 >>, << 67463, 67504 >>, << 67506, 67514 >>, << 68097, 68099 >>,
      << 68101, 68102 >>, << 68108, 68111 >>, << 68152, 68154 >>, << 68159, 68159 >>, << 68325, 68326 >>,
      << 68900, 68903 >>, << 69291, 69292 >>, << 69446, 69456 >>, << 69506, 69509 >>, << 69633, 69633 >>,
      << 69688, 69702 >>, << 69744, 69744 >>, << 69747, 69748 >>, << 69759, 69761 >>, << 69811, 69814 >>,
      << 69817, 69818 >>, << 69821, 69821 >>, << 69826, 69826 >>, << 69837, 69837 >>, << 69888, 69890 >>,
      << 69927, 69931 >>, << 69933, 69940 >>, << 70003, 70003 >>, << 70016, 70017 >>, << 70070, 70078 >>,
      << 70089, 70092 >>, << 70095, 70095 >>, << 70191, 70193 >>, << 70196, 70196 >>, << 70198, 70199 >>,
      << 70206, 70206 >>, << 70367, 70367 >>, << 70371, 70378 >>, << 70400, 70401 >>, << 70459, 70460 >>,
      << 70464, 70464 >>, << 70502, 70508 >>, << 70512, 70516 >>, << 70712, 70719 >>, << 70722, 70724 >>,
      << 70726, 70726 >>, << 70750, 70750 >>, << 70835, 70840 >>, << 70842, 70842 >>, << 70847, 70848 >>,
      << 70850, 70851 >>, << 71090, 71093 >>, << 71100, 71101 >>, << 71103, 71104 >>, << 71132, 71133 >>,
      << 71219, 71226 >>, << 71229, 71229 >>, << 71231, 71232 >>, << 71339, 71339 >>, << 71341, 71341 >>,
      << 71344, 71349 >>, << 71351, 71351 >>, << 71453, 71455 >>, << 71458, 71461 >>, << 71463, 71467 >>,
      << 71727, 71735 >>, << 71737, 71738 >>, << 71995, 71996 >>, << 71998, 71998 >>, << 72003, 72003 >>,
      << 72148, 72151 >>, << 72154, 72155 >>, << 72160, 72160 >>, << 72193, 72202 >>, << 72243, 72248 >>,
      << 72251, 72254 >>, << 72263, 72263 >>, << 72273, 72278 >>, << 72281, 72283 >>, << 72330, 72342 >>,
      << 72344, 72345 >>, << 72752, 72758 >>, << 72760, 72765 >>, << 72767, 72767 >>, << 72850, 72871 >>,
      << 72874, 72880 >>, << 72882, 72883 >>, << 72885, 72886 >>, << 73009, 73014 >>, << 73018, 73018 >>,
      << 73020, 73021 >>, << 73023, 73029 >>, << 73031, 73031 >>, << 73104, 73105 >>, << 73109, 73109 >>,
      << 73111, 73111 >>, << 73459, 73460 >>, << 78896, 78904 >>, << 92912, 92916 >>, << 92976, 92982 >>,
      << 92992, 92995 >>, << 94031, 94031 >>, << 94095, 94111 >>, << 94176, 94177 >>, << 94179, 94180 >>,
      << 110576, 110579 >>, << 110581, 110587 >>, << 110589, 110590 >>, << 113821, 113822 >>, << 113824, 113827 >>,
      << 118528, 118573 >>, << 118576, 118598 >>, << 119143, 119145 >>, << 119155, 119170 >>, << 119173, 119179 >>,
      << 119210, 119213 >>, << 119362, 119364 >>, << 121344, 121398 >>, << 121403, 121452 >>, << 121461, 121461 >>,
      << 121476, 121476 >>, << 121499, 121503 >>, << 121505, 121519 >>, << 122880, 122886 >>, << 122888, 122904 >>,
      << 122907, 122913 >>, << 122915, 122916 >>, << 122918, 122922 >>, << 123184, 123197 >>, << 123566, 123566 >>,
      << 123628, 123631 >>, << 125136, 125142 >>, << 125252, 125259 >>, << 127995, 127999 >>, << 917505, 917505 >>,
      << 917536, 917631 >>, << 917760, 917999 >> }

\* the ranges << first, last >> of the cased characters that are not
\* case-ignorable
CasedRanges ==
    { << 65, 90 >>, << 97, 122 >>, << 170, 170 >>, << 181, 181 >>, << 186, 186 >>,
      << 192, 214 >>, << 216, 246 >>, << 248, 442 >>, << 444, 447 >>, << 452, 659 >>,
      << 661, 687 >>, << 880, 883 >>, << 886, 887 >>, << 891, 893 >>, << 895, 895 >>,
      << 902, 902 >>, << 904, 906 >>, << 908, 908 >>, << 910, 929 >>, << 931, 1013 >>,
      << 1015, 1153 >>, << 1162, 1327 >>, << 1329, 1366 >>, << 1376, 1416 >>, << 4256, 4293 >>,
      << 4295, 4295 >>, << 4301, 4301 >>, << 4304, 4346 >>, << 4349, 4351 >>, << 5024, 5109 >>,
      << 5112, 5117 >>, << 7296, 7304 >>, << 7312, 7354 >>, << 7357, 7359 >>, << 7424, 7467 >>,
      << 7531, 7543 >>, << 7545, 7578 >>, << 7680, 7957 >>, << 7960, 7965 >>, << 7968, 8005 >>,
      << 8008, 8013 >>, << 8016, 8023 >>, << 8025, 8025 >>, << 8027, 8027 >>, << 8029, 8029 >>,
      << 8031, 8061 >>, << 8064, 8116 >>, << 8118, 8124 >>, << 8126, 8126 >>, << 8130, 8132 >>,
      << 8134, 8140 >>, << 8144, 8147 >>, << 8150, 8155 >>, << 8160, 8172 >>, << 8178, 8180 >>,
      << 8182, 8188 >>, << 8450, 8450 >>, << 8455, 8455 >>, << 8458, 8467 >>, << 8469, 8469 >>,
      << 8473, 8477 >>, << 8484, 8484 >>, << 8486, 8486 >>, << 8488, 8488 >>, << 8490, 8493 >>,
      << 8495, 8500 >>, << 8505, 8505 >>, << 8508, 8511 >>, << 8517, 8521 >>, << 8526, 8526 >>,
      << 8544, 8575 >>, << 8579, 8580 >>, << 9398, 9449 >>, << 11264, 11387 >>, << 11390, 11492 >>,
      << 11499, 11502 >>, << 11506, 11507 >>, << 11520, 11557 >>, << 11559, 11559 >>, << 11565, 11565 >>,
      << 42560, 42605 >>, << 42624, 42651 >>, << 42786, 42863 >>, << 42865, 42887 >>, << 42891, 42894 >>,
      << 42896, 42954 >>, << 42960, 42961 >>, << 42963, 42963 >>, << 42965, 42969 >>, << 42997, 42998 >>,
      << 43002, 43002 >>, << 43824, 43866 >>, << 43872, 43880 >>, << 43888, 43967 >>, << 64256, 64262 >>,
      << 64275, 64279 >>, << 65313, 65338 >>, << 65345, 65370 >>, << 66560, 66639 >>, << 66736, 66771 >>,
      << 66776, 66811 >>, << 66928, 66938 >>, << 66940, 66954 >>, << 66956, 66962 >>, << 66964, 66965 >>,
      << 66967, 66977 >>, << 66979, 66993 >>, << 66995, 67001 >>, << 67003, 67004 >>, << 68736, 68786 >>,
      << 68800, 68850 >>, << 71840, 71903 >>, << 93760, 93823 >>, << 119808, 119892 >>, << 119894, 119964 >>,
      << 119966, 119967 >>, << 119970, 119970 >>, << 119973, 119974 >>, << 119977, 119980 >>, << 119982, 119993 >>,
      << 119995, 119995 >>, << 119997, 120003 >>, << 120005, 120069 >>, << 120071, 120074 >>, << 120077, 120084 >>,
      << 120086, 120092 >>, << 120094, 120121 >>, << 120123, 120126 >>, << 120128, 120132 >>, << 120134, 120134 >>,
      << 120138, 120144 >>, << 120146, 120485 >>, << 120488, 120512 >>, << 120514, 120538 >>, << 120540, 120570 >>,
      << 120572, 120596 >>, << 120598, 120628 >>, << 120630, 120654 >>, << 120656, 120686 >>, << 120688, 120712 >>,
      << 120714, 120744 >>, << 120746, 120770 >>, << 120772, 120779 >>, << 122624, 122633 >>, << 122635, 122654 >>,
      << 125184, 125251 >>, << 127280, 127305 >>, << 127312, 127337 >>, << 127344, 127369 >> }

IsCaseIgnorable(c) == \E r \in CaseIgnorableRanges : r[1] <= c /\ c <= r[2]
IsCased(c) == \E r \in CasedRanges : r[1] <= c /\ c <= r[2]

CAPITAL_SIGMA == 931
FINAL_SIGMA == 962
SMALL_SIGMA == 963

\* str.lower(): a capital sigma lowers to the final sigma when the nearest
\* character before it that is not case-ignorable is cased and the nearest
\* one after it, if any, is not
IsFinalSigma(s, i) ==
    /\ \E j \in 1..(i - 1) :
         /\ ~IsCaseIgnorable(s[j])
         /\ IsCased(s[j])
         /\ \A k \in (j + 1)..(i - 1) : IsCaseIgnorable(s[k])
    /\ \A j \in (i + 1)..Len(s) :
         (\A k \in (i + 1)..(j - 1) : IsCaseIgnorable(s[k])) =>
           (IsCaseIgnorable(s[j]) \/ ~IsCased(s[j]))

LowerAt(s, i) ==
    IF s[i] = CAPITAL_SIGMA
    THEN << IF IsFinalSigma(s, i) THEN FINAL_SIGMA ELSE SMALL_SIGMA >>
    ELSE LowerChar(s[i])

\* str.lower()
lower(s) ==
    LET F[i \in 0..Len(s)] ==
          IF i = 0 THEN << >> ELSE F[i - 1] \o LowerAt(s, i)
    IN F[Len(s)]

RECURSIVE lstrip(_)
lstrip(s) ==
    IF s # <<>> /\ Head(s) \in Whitespace THEN lstrip(Tail(s)) ELSE s

RECURSIVE rstrip(_)
rstrip(s) ==
    IF s # <<>> /\ s[Len(s)] \in Whitespace
    THEN rstrip(SubSeq(s, 1, Len(s) - 1))
    ELSE s

\* str.strip()
strip(s) == rstrip(lstrip(s))

\* BaseLLM.remove_think: the reply without its reasoning block
remove_think(content) == content.text

\* BaseLLM.literal_eval: the parsed literal; ok = FALSE when the text is no
\* literal and the method raises
literal_eval(content) ==
    IF content.text.kind = "list"
    THEN [ok |-> TRUE, val |-> content.text.val]
    ELSE [ok |-> FALSE, val |-> << >>]

\* `needle in answer` for an answer given as a sequence of chunks
Contains(answer, needle) == \E i \in 1..Len(answer) : answer[i] = needle

\* ------------------------------------------------------- retrieval results
\* RetrievalResult: reference, text and score (embedding and metadata are
\* carried along unread by the loop). D1 and D2 share reference and text,
\* D1 and D3 share only the text.
D1 == [reference |-> "r1", text |-> "t1", score |-> "s1"]
D2 == [reference |-> "r1", text |-> "t1", score |-> "s2"]
D3 == [reference |-> "r2", text |-> "t1", score |-> "s1"]
D4 == [reference |-> "r2", text |-> "t2", score |-> "s1"]
D5 == [reference |-> "r3", text |-> "t3", score |-> "s1"]
D6 == [reference |-> "r4", text |-> "t4", score |-> "s1"]

Key(d) == <<d.reference, d.text>>

NoDuplicates(L) ==
    \A i, j \in 1..Len(L) : i # j => Key(L[i]) # Key(L[j])

\* deduplicate_results: first occurrence of every (reference, text) key
deduplicate_results(L) ==
    LET F[i \in 0..Len(L)] ==
          IF i = 0 THEN <<>>
          ELSE IF \E j \in 1..Len(F[i - 1]) : Key(F[i - 1][j]) = Key(L[i])
               THEN F[i - 1]
               ELSE Append(F[i - 1], L[i])
    IN F[Len(L)]

\* ------------------------------------------------------------------- store
\* A collection of the store: its name, its description, the dimension of
\* its embedding field, and how many times the corpus of the double has been
\* inserted into it. The primary key is generated (auto_id, line 88), so an
\* insert never replaces a row: every insert of the corpus adds its rows.
\* a collection that holds the corpus of the double once
Col(n, d, m) ==
    [collection_name |-> n, description |-> d, dim |-> m, rows |-> 1]
\* a collection as client.create_collection leaves it: without rows
Created(n, d, m) ==
    [collection_name |-> n, description |-> d, dim |-> m, rows |-> 0]

Names(infos) == { infos[i].collection_name : i \in 1..Len(infos) }

\* CollectionInfo(collection_name=..., description=...)
CollectionInfo(c) ==
    [collection_name |-> c.collection_name, description |-> c.description]

\* Milvus.list_collections(dim=dim): the collections whose embedding field
\* has the given dimension (dim = 0 lists all of them)
list_collections(db, dim) ==
    LET kept == SelectSeq(db, LAMBDA c : dim = 0 \/ c.dim = dim)
    IN [i \in 1..Len(kept) |-> CollectionInfo(kept[i])]

\* all orders of a finite set, as sequences
Orders(S) ==
    { f \in [1..Cardinality(S) -> S] :
        \A i, j \in 1..Cardinality(S) : i # j => f[i] # f[j] }

\* ------------------------------------------------------------ chat replies
Reply(t) == { [think |-> b, text |-> t] : b \in BOOLEAN }

SubQueries == { "q1", "q2" }

SENTINEL == "No relevant information found"
\* the phrase INTERMEDIATE_ANSWER_PROMPT asks for (U+672A U+627E U+5230 U+76F8
\* U+5173 U+4FE1 U+606F), one chunk
PROMPT_NO_INFO == "wei zhao dao xiang guan xin xi"
\* intermediate answers, as sequences of text chunks
Answers ==
    { << "2015" >>,
      << SENTINEL >>,
      << "Sorry. ", SENTINEL, " in the documents." >>,
      << PROMPT_NO_INFO >> }

FinalAnswers == { "final" }

\* "no"
NO_WORD == << 110, 111 >>
\* "yes"
YES == << 121, 101, 115 >>
\* the words REFLECTION_PROMPT asks for: U+662F (yes) and U+5426 (no), each
\* one character
PROMPT_YES == << 26159 >>
PROMPT_NO == << 21542 >>
\* replies to the reflection prompt, one character per element
ReflectionReplies ==
    { YES,
      << 89, 101, 115 >>, \* "Yes"
      << 32, 89, 69, 83, 10 >>, \* " YES\n"
      << 121, 101, 115, 13, 10 >>, \* "yes\r\n"
      << 12288, 89, 69, 65, 72, 11 >>, \* U+3000 "YEAH" U+000B
      << 9, 121, 101, 115, 32, 32 >>, \* "\tyes  "
      << 89, 101, 115, 44, 32, 108, 105, 107, 101, 108, 121 >>, \* "Yes, likely"
      << 89, 101, 115, 44, 32, 112, 114, 111, 98, 97, 98, 108, 121 >>, \* "Yes, probably"
      << 121, 32, 101, 115 >>, \* "y es"
      << >>, \* ""
      << 32 >>, \* " "
      << 110, 111 >>, \* "no"
      << 78, 79 >>, \* "NO"
      << 201, 67, 79, 76, 69 >>, \* U+00C9 "COLE"
      << 913, 931 >>, \* capital alpha, capital sigma
      << 304 >>, \* U+0130
      PROMPT_YES,
      PROMPT_NO }

Lit(v) == [kind |-> "list", val |-> v]
Garbage == [kind |-> "text", val |-> << >>]

\* replies to the routing prompt
RouteReplies ==
    { Lit(<< >>), Lit(<< "news" >>), Lit(<< "news", "src", "news" >>),
      Lit(<< "ghost" >>), Lit(<< "" >>), Garbage }

\* replies to the supported-documents prompt
FilterReplies ==
    { Lit(<< >>), Lit(<< 0 >>), Lit(<< 1, 0 >>), Lit(<< 0, 0 >>),
      Lit(<< 1, 3, 99 >>), Lit(<< -1 >>), Lit(<< -9 >>), Garbage }

\* ------------------------------------------------------------ test doubles
\* The language model, the embedding model and the store are injected
\* dependencies. A run is explored against one of a few doubles; each one
\* varies one kind of input (replies, corpus, configuration) widely and pins
\* the others, so that the state space is the sum, not the product, of the
\* kinds. What a call of the store or of the model may do with a given
\* input is never pinned.
Worlds ==
    { "cost", "docs", "text", "route", "empty", "single", "nodefault",
      "faulty" }

StoreEmpty == << >>
StoreSingle == << Col("src", "filings", dimension) >>
StoreMany ==
    << Col("src", "filings", dimension), Col("news", "press", dimension),
       Col("misc", "", dimension), Col("old", "legacy", OtherDim) >>

\* no collection carries the name of default_collection
StoreNoDefault ==
    << Col("news", "press", dimension), Col("misc", "", dimension),
       Col("old", "legacy", OtherDim) >>

\* two described collections of the dimension of the embedding model
StoreTwo ==
    << Col("src", "filings", dimension), Col("news", "press", dimension) >>

\* the last collection was built with another embedding model
StoreLegacy ==
    << Col("src", "filings", dimension), Col("old", "legacy", OtherDim) >>

\* the store at construction
StoreOf(w) ==
    CASE w = "empty" -> StoreEmpty
      [] w = "single" -> StoreSingle
      [] w = "nodefault" -> StoreNoDefault
      [] w = "route" -> StoreMany
      [] w = "faulty" -> StoreLegacy
      [] OTHER -> StoreTwo

TokensOf(w) == IF w = "cost" THEN { 1, MaxTokens } ELSE { 1 }

SubQueriesOf(w) == IF w = "cost" THEN SubQueries ELSE { "q1" }

AnswersOf(w) ==
    CASE w = "text" -> Answers
      [] w = "faulty" -> { << "2015" >>, << SENTINEL >> }
      [] OTHER -> { << "2015" >> }

\* what a search of a collection that holds the corpus once returns when
\* the client does not fail
SearchesOf(w, collection) ==
    CASE w = "docs" /\ collection = "src" -> { << D1, D4 >> }
      [] w = "docs" /\ collection = "news" -> { << D2, D3 >> }
      [] w = "docs" -> { << >> }
      [] w = "nodefault" /\ collection = "news" -> { << D2, D3 >> }
      [] OTHER -> { << D1 >> }

\* list(set(names)): the order of a set of strings is fixed by the hash seed
\* of the process, which no double controls: every order is possible
SetOrdersOf(w, S) == Orders(S)

FilterRepliesOf(w) ==
    CASE w = "text" -> FilterReplies
      [] w = "docs" ->
           { Lit(<< >>), Lit(<< 1, 0 >>), Lit(<< 0, 0 >>), Lit(<< -1 >>),
             Lit(<< -9 >>) }
      [] OTHER -> { Lit(<< 0 >>), Garbage }

RouteRepliesOf(w) ==
    IF w = "route" THEN RouteReplies ELSE { Lit(<< "news" >>), Garbage }

ReflectionRepliesOf(w) ==
    IF w = "text" THEN ReflectionReplies ELSE { YES, NO_WORD }

\* ------------------------------------------------------- component steps
\* Results of the helper methods are records: err names the exception that
\* leaves the method ("parse" from literal_eval, "index" an IndexError),
\* chat = TRUE says that a generation call was issued.

\* the doubles whose store client may raise in create, drop, insert and
\* search
FaultyWorlds == { "faulty", "empty" }

\* every prefix of a sequence
Prefixes(q) == { SubSeq(q, 1, k) : k \in 0..Len(q) }

\* Milvus.list_collections with its try/except: an error of the client is
\* logged and the infos collected so far are returned
\* failed says that the except branch ran: client.list_collections raised
\* (nothing collected), or describe_collection raised at one collection (the
\* ones before it were collected, those of another dimension skipped). The
\* names are listed in one call of the client and each collection is
\* described in a call of its own, so describe_collection raises with any
\* store client whenever the collection was dropped in between: the failed
\* prefixes are outcomes against every double.
ListOutcomes(db, dim) ==
    { [infos |-> list_collections(db, dim), failed |-> FALSE] }
      \cup { [infos |-> list_collections(q, dim), failed |-> TRUE] :
               q \in Prefixes(db) \ { db } }
      \cup { [infos |-> << >>, failed |-> TRUE] }

\* the collection a call of the store wrapper names: lines 97-98, 205-206,
\* 299-300 (`if not collection`)
NamedCollection(collection) ==
    IF collection \in { "", None } THEN default_collection ELSE collection

\* client.drop_collection: a collection that does not exist is no error
Dropped(db, name) == SelectSeq(db, LAMBDA c : c.collection_name # name)

\* Milvus.clear_db with its try/except: the stores it may leave
clear_db(w, db, collection) ==
    { Dropped(db, NamedCollection(collection)) }
      \cup IF w \in FaultyWorlds THEN { db } ELSE { }

\* Milvus.init_collection with its try/except: the stores it may leave. An
\* existing collection is kept unless force_new_collection; a created one
\* holds no rows and is enumerated last. The client may raise before
\* anything changed, or after the drop.
init_collection(w, db, dim, collection, description, force_new_collection) ==
    LET name == NamedCollection(collection)
        desc == IF description = None THEN "" ELSE description
    IN IF name \in Names(db) /\ ~force_new_collection
       THEN { db }
       ELSE { Append(Dropped(db, name), Created(name, desc, dim)) }
              \cup IF w \in FaultyWorlds
                   THEN { db, Dropped(db, name) }
                   ELSE { }

\* client.insert: the store with the corpus inserted once more into one of
\* its collections
Inserted(db, name) ==
    [i \in 1..Len(db) |->
       IF db[i].collection_name = name THEN [db[i] EXCEPT !.rows = @ + 1]
       ELSE db[i]]

\* Milvus.insert_data with its try/except: the stores it may leave. Without
\* chunks no batch is built and the client is not called; client.insert
\* raises for a collection that does not exist, and the error is logged.
\* There is no lookup and no delete before the insert: rows that are there
\* already are inserted again.
insert_data(w, db, collection, chunks) ==
    LET name == NamedCollection(collection)
    IN IF chunks = << >> \/ name \notin Names(db)
       THEN { db }
       ELSE { Inserted(db, name) }
              \cup IF w \in FaultyWorlds THEN { db } ELSE { }

\* how many times the corpus has been inserted into a collection
Copies(db, name) ==
    IF name \in Names(db)
    THEN (CHOOSE c \in { db[i] : i \in 1..Len(db) } :
            c.collection_name = name).rows
    ELSE 0

\* the number of hits search_data asks the client for
top_k == 5

\* The rankings of a collection that holds every row of hits k times. hits
\* is the ranking of the rows held once. The copies of a row have its
\* distance; the order of hits of equal distance is not fixed by the store,
\* and a double does not say which distances are equal: a ranking is any
\* merge of k copies of hits.
Rankings(hits, k) ==
    LET n == Len(hits)
        Count(r, p, i) == Cardinality({ q \in 1..p : r[q] = i })
    IN { [p \in 1..(k * n) |-> hits[r[p]]] :
           r \in { x \in [1..(k * n) -> 1..n] :
                     /\ \A i \in 1..n : Count(x, k * n, i) = k
                     /\ \A p \in 1..(k * n), i \in 1..n :
                          i > 1 => Count(x, p, i) <= Count(x, p, i - 1) } }

\* the first m elements of a sequence
Take(q, m) == SubSeq(q, 1, IF Len(q) < m THEN Len(q) ELSE m)

\* the rows a collection of the store holds, as a search finds them: the
\* top_k first of a ranking
Rows(w, db, name) ==
    { Take(r, top_k) :
        r \in UNION { Rankings(h, Copies(db, name)) : h \in SearchesOf(w, name) } }

\* Milvus.search_data with its try/except: an error of the client (a missing
\* collection among them) is logged and [] is returned; failed says that the
\* except branch ran. A collection without rows yields no result; one that
\* holds its rows several times yields the copies.
SearchData(w, db, collection) ==
    LET searched == NamedCollection(collection)
    IN IF searched \notin Names(db)
       THEN { [failed |-> TRUE, found |-> << >>] }
       ELSE { [failed |-> FALSE, found |-> f] : f \in Rows(w, db, searched) }
              \cup IF w \in FaultyWorlds
                   THEN { [failed |-> TRUE, found |-> << >>] }
                   ELSE { }

\* CollectionRouter.invoke, lines 87-94: the overlay on the model's selection
RouterOverlayNone(infos, parsed) == { parsed[i] : i \in 1..Len(parsed) }
RouterOverlay(infos, parsed) ==
    { parsed[i] : i \in 1..Len(parsed) }
      \cup { infos[i].collection_name :
               i \in { k \in 1..Len(infos) :
                         \/ infos[k].description = ""
                         \/ infos[k].collection_name = default_collection } }

\* CollectionRouter.invoke, lines 71-98: the routing call, its parse, the
\* overlay; sels is the set of lists list(set(...)) may produce
RouterChat(w, infos, reply, tokens) ==
    IF ~literal_eval(reply).ok
    THEN [err |-> "parse", chat |-> TRUE, tokens |-> 0, sels |-> { }]
    ELSE [err |-> "none", chat |-> TRUE, tokens |-> tokens,
          sels |-> SetOrdersOf(w, RouterOverlay(infos, literal_eval(reply).val))]

\* CollectionRouter.invoke on the enumerated infos
RouterInvokeNoEmptyCase(w, infos, reply, tokens) ==
    IF Len(infos) = 1
    THEN [err |-> "none", chat |-> FALSE, tokens |-> 0,
          sels |-> { << infos[1].collection_name >> }]
    ELSE RouterChat(w, infos, reply, tokens)
RouterInvokeNoSingleCase(w, infos, reply, tokens) ==
    IF Len(infos) = 0
    THEN [err |-> "none", chat |-> FALSE, tokens |-> 0, sels |-> { << >> }]
    ELSE RouterChat(w, infos, reply, tokens)
RouterInvoke(w, infos, reply, tokens) ==
    IF Len(infos) = 0
    THEN [err |-> "none", chat |-> FALSE, tokens |-> 0, sels |-> { << >> }]
    ELSE IF Len(infos) = 1
    THEN [err |-> "none", chat |-> FALSE, tokens |-> 0,
          sels |-> { << infos[1].collection_name >> }]
    ELSE RouterChat(w, infos, reply, tokens)

\* retrieved_results[int(i)] of Python, for a 1-based sequence
PyIndex(L, i) == IF i >= 0 THEN L[i + 1] ELSE L[Len(L) + i + 1]

\* _get_supported_docs, line 180: "No relevant information found" in
\* intermediate_answer
HasSentinelExact(answer) == answer = << SENTINEL >>
HasSentinel(answer) == Contains(answer, SENTINEL)

\* _get_supported_docs, lines 194-198: the list comprehension over the parsed
\* indices
SupportedByIndex(results, idx, tokens) ==
    LET kept == SelectSeq(idx, LAMBDA i : i < Len(results))
    IN IF \E k \in 1..Len(kept) : kept[k] < -Len(results)
       THEN [err |-> "index", chat |-> TRUE, tokens |-> 0, docs |-> << >>]
       ELSE [err |-> "none", chat |-> TRUE, tokens |-> tokens,
             docs |-> [k \in 1..Len(kept) |-> PyIndex(results, kept[k])]]

\* ChainOfRAG._get_supported_docs
GetSupportedDocsKeepAll(results, answer, reply, tokens) ==
    IF HasSentinel(answer)
    THEN [err |-> "none", chat |-> FALSE, tokens |-> 0, docs |-> results]
    ELSE IF ~literal_eval(reply).ok
    THEN [err |-> "parse", chat |-> TRUE, tokens |-> 0, docs |-> << >>]
    ELSE SupportedByIndex(results, literal_eval(reply).val, tokens)
GetSupportedDocsLenient(results, answer, reply, tokens) ==
    IF HasSentinel(answer)
    THEN [err |-> "none", chat |-> FALSE, tokens |-> 0, docs |-> << >>]
    ELSE IF ~literal_eval(reply).ok
    THEN [err |-> "none", chat |-> TRUE, tokens |-> tokens, docs |-> << >>]
    ELSE SupportedByIndex(results, literal_eval(reply).val, tokens)
GetSupportedDocs(results, answer, reply, tokens) ==
    IF HasSentinel(answer)
    THEN [err |-> "none", chat |-> FALSE, tokens |-> 0, docs |-> << >>]
    ELSE IF ~literal_eval(reply).ok
    THEN [err |-> "parse", chat |-> TRUE, tokens |-> 0, docs |-> << >>]
    ELSE SupportedByIndex(results, literal_eval(reply).val, tokens)

\* ChainOfRAG._check_has_enough_info, line 219
IsYesPrefix(reply) ==
    LET s == lower(strip(remove_think(reply)))
    IN Len(s) >= 3 /\ SubSeq(s, 1, 3) = YES
IsYes(reply) == lower(strip(remove_think(reply))) = YES

\* ChainOfRAG._check_has_enough_info
CheckNoFloor(contexts, reply, tokens) ==
    [chat |-> TRUE, tokens |-> tokens, has |-> IsYes(reply)]
CheckHasEnoughInfo(contexts, reply, tokens) ==
    IF contexts = << >>
    THEN [chat |-> FALSE, tokens |-> 0, has |-> FALSE]
    ELSE [chat |-> TRUE, tokens |-> tokens, has |-> IsYes(reply)]

\* the f-string of retrieve, lines 256-258
Context(idx, query, answer) == [idx |-> idx, query |-> query, answer |-> answer]

\* ------------------------------------------------------------------- state
VARIABLES
    world,                  \* the test doubles of this run
    store,                  \* the collections of the vector database
    all_collections,        \* CollectionRouter.all_collections
    self_max_iter,          \* ChainOfRAG.max_iter
    early_stopping,         \* ChainOfRAG.early_stopping
    route_collection,       \* ChainOfRAG.route_collection
    pc,                     \* position of the running call
    op,                     \* the method that runs or ran last
    kw_max_iter,            \* kwargs: << >>, or << max_iter >> when passed
    max_iter,               \* retrieve: max_iter
    n_iter,                 \* retrieve: loop bodies entered (iter + 1)
    intermediate_contexts,  \* retrieve: intermediate_contexts
    all_retrieved_results,  \* retrieve: all_retrieved_results
    token_usage,            \* retrieve: token_usage
    has_enough_info,        \* retrieve: has_enough_info
    loop_exit,              \* how the loop ended: "none", "DONE", "STOPPED_EARLY"
    followup_query,         \* retrieve: followup_query
    n_token0,               \* retrieve: n_token0
    selected_collections,   \* _retrieve_and_answer: collections still to search
    ra_results,             \* _retrieve_and_answer: all_retrieved_results
    consume_tokens,         \* _retrieve_and_answer: consume_tokens
    intermediate_answer,    \* retrieve: intermediate_answer
    retrieved_results,      \* retrieve: retrieved_results
    n_token1,               \* retrieve: n_token1
    supported_retrieved_results, \* retrieve: supported_retrieved_results
    n_token2,               \* retrieve: n_token2
    ret,                    \* what the last call returned or raised
    calls,                  \* history: generation calls, and enumerations of
                            \* the store, issued by the call
    spent,                  \* history: total_tokens of the replies to the call
    picked,                 \* history: what _get_supported_docs returned so far
    synth_in,               \* history: what the final-answer prompt was given
    run_log                 \* history of the running iteration: what the
                            \* decomposer was handed, the store and embedding
                            \* calls of _retrieve_and_answer

config == << world, store, all_collections, self_max_iter, early_stopping,
             route_collection >>
args == << op, kw_max_iter >>
\* locals of retrieve that live across iterations
loop_locals == << max_iter, n_iter, intermediate_contexts,
                  all_retrieved_results, token_usage, has_enough_info,
                  loop_exit >>
\* locals of one iteration; they are dead once line 259 has run and are
\* cleared there
iter_locals == << followup_query, n_token0, selected_collections, ra_results,
                  consume_tokens, intermediate_answer, retrieved_results,
                  n_token1, supported_retrieved_results, n_token2, run_log >>
vars == << config, pc, args, loop_locals, iter_locals, ret, calls, spent,
           picked, synth_in >>

\* the generation calls, by the prompt they carry
Kinds == { "decompose", "route", "answer", "filter", "check", "synth" }
\* the calls of the store that are counted: Milvus.list_collections
StoreKinds == { "list" }
NoCalls == [k \in Kinds \cup StoreKinds |-> 0]
Bump(c, k) == [c EXCEPT ![k] = @ + 1]
BumpIf(c, k, b) == IF b THEN Bump(c, k) ELSE c

NoRet == [op |-> None]
NoSynth == [given |-> FALSE]
NoPicked == [n |-> 0, keys |-> { }, docs |-> { }]
\* asked: the records _reflect_get_subquery was called with; sel: the
\* collections the run was given to search, in order; searched: the
\* collection each call of search_data named, in call order; found: what each
\* search returned, in call order; embeds: embed_query calls; failed: a call
\* of the store client raised (and the store wrapper swallowed it); infos:
\* what the enumeration of the routing call returned
NoRun ==
    [asked |-> << >>, sel |-> << >>, searched |-> << >>, found |-> << >>,
     embeds |-> 0, failed |-> FALSE, infos |-> << >>]
Keys(L) == { Key(L[i]) : i \in 1..Len(L) }
Docs(L) == { L[i] : i \in 1..Len(L) }
Idle == { "idle", "complete", "raised" }

\* max_iter as configured: below and at the bound
ConfiguredMaxIter == { 1, MaxIterBound }
\* kwargs of retrieve / query: empty, or max_iter alone (below, at and above
\* a configured value)
KwMaxIter == { << >>, << 0 >>, << MaxIterBound >> }
\* the double whose calls pass max_iter; the others are called without it
KwMaxIterOf(w) == IF w = "single" THEN KwMaxIter ELSE { << >> }
Ops == { "retrieve", "query" }
\* the configuration of the agent, by double: the doubles that vary the
\* replies widely run one iteration
ConfiguredMaxIterOf(w) ==
    CASE w = "single" -> ConfiguredMaxIter
      [] w \in { "docs", "empty", "faulty" } -> { MaxIterBound }
      [] OTHER -> { 1 }
EarlyStoppingOf(w) ==
    CASE w = "single" -> BOOLEAN
      [] w \in { "cost", "text" } -> { TRUE }
      [] OTHER -> { FALSE }
RouteCollectionOf(w) ==
    CASE w = "empty" -> BOOLEAN
      [] OTHER -> { TRUE }

\* no frame of retrieve exists
NoFrame ==
    /\ max_iter = 0
    /\ n_iter = 0
    /\ intermediate_contexts = << >>
    /\ all_retrieved_results = << >>
    /\ token_usage = 0
    /\ has_enough_info = FALSE
    /\ loop_exit = "none"
    /\ followup_query = None
    /\ n_token0 = 0
    /\ selected_collections = << >>
    /\ ra_results = << >>
    /\ consume_tokens = 0
    /\ intermediate_answer = << >>
    /\ retrieved_results = << >>
    /\ n_token1 = 0
    /\ supported_retrieved_results = << >>
    /\ n_token2 = 0
    /\ run_log = NoRun

NoIteration ==
    /\ followup_query' = None
    /\ n_token0' = 0
    /\ selected_collections' = << >>
    /\ ra_results' = << >>
    /\ consume_tokens' = 0
    /\ intermediate_answer' = << >>
    /\ retrieved_results' = << >>
    /\ n_token1' = 0
    /\ supported_retrieved_results' = << >>
    /\ n_token2' = 0
    /\ run_log' = NoRun

\* ChainOfRAG.__init__ / CollectionRouter.__init__
Init ==
    /\ world \in Worlds
    /\ store = StoreOf(world)
    /\ all_collections \in
         { [i \in 1..Len(o.infos) |-> o.infos[i].collection_name] :
             o \in ListOutcomes(store, dimension) }
    /\ self_max_iter \in ConfiguredMaxIterOf(world)
    /\ early_stopping \in EarlyStoppingOf(world)
    /\ route_collection \in RouteCollectionOf(world)
    /\ pc = "idle"
    /\ op = None
    /\ kw_max_iter = << >>
    /\ NoFrame
    /\ ret = NoRet
    /\ calls = NoCalls
    /\ spent = 0
    /\ picked = NoPicked
    /\ synth_in = NoSynth

\* retrieve, line 240: kwargs.pop("max_iter", self.max_iter)
PopMaxIter(kw, configured) == IF kw = << >> THEN configured ELSE kw[1]

\* retrieve, line 244: range(max_iter) has a next value
RangeHasNextInclusive(i, m) == i <= m
RangeHasNext(i, m) == i < m

\* retrieve, line 267: the break
BreakNever(has) == FALSE
BreakOn(has) == has

\* retrieve / query are entered: lines 240-243
Call(o, kw) ==
    /\ pc \in Idle
    /\ pc' = "loop"
    /\ op' = o
    /\ kw_max_iter' = kw
    /\ max_iter' = PopMaxIter(kw, self_max_iter)
    /\ n_iter' = 0
    /\ intermediate_contexts' = << >>
    /\ all_retrieved_results' = << >>
    /\ token_usage' = 0
    /\ has_enough_info' = FALSE
    /\ loop_exit' = "none"
    /\ NoIteration
    /\ ret' = NoRet
    /\ calls' = NoCalls
    /\ spent' = 0
    /\ picked' = NoPicked
    /\ synth_in' = NoSynth
    /\ UNCHANGED config

\* an exception leaves the running call: the frames of retrieve and query are
\* unwound and nothing is returned. The caller states calls'.
Raise(kind, cause) ==
    /\ pc' = "raised"
    /\ ret' = [op |-> op, raised |-> TRUE, at |-> kind, cause |-> cause]
    /\ max_iter' = 0
    /\ n_iter' = 0
    /\ intermediate_contexts' = << >>
    /\ all_retrieved_results' = << >>
    /\ token_usage' = 0
    /\ has_enough_info' = FALSE
    /\ loop_exit' = "none"
    /\ NoIteration
    /\ spent' = 0
    /\ picked' = NoPicked
    /\ UNCHANGED << config, args, synth_in >>

\* retrieve, line 246: the records _reflect_get_subquery is called with
DecomposerInput(contexts) == contexts

\* retrieve, lines 244-246: the loop goes on, _reflect_get_subquery
Decompose ==
    /\ pc = "loop"
    /\ RangeHasNext(n_iter, max_iter)
    /\ calls' = Bump(calls, "decompose")
    /\ \/ \E q \in SubQueriesOf(world), t \in TokensOf(world) :
          \E r \in Reply(q) :
            /\ n_iter' = n_iter + 1
            /\ followup_query' = remove_think(r)
            /\ n_token0' = t
            /\ run_log' =
                 [NoRun EXCEPT !.asked = DecomposerInput(intermediate_contexts)]
            /\ spent' = spent + t
            /\ pc' = "route"
            /\ UNCHANGED << config, args, max_iter, intermediate_contexts,
                            all_retrieved_results, token_usage,
                            has_enough_info, loop_exit, selected_collections,
                            ra_results, consume_tokens, intermediate_answer,
                            retrieved_results, n_token1,
                            supported_retrieved_results, n_token2, ret,
                            picked, synth_in >>
       \/ Raise("decompose", "call")

\* retrieve, line 244: range(max_iter) is exhausted
LoopDone ==
    /\ pc = "loop"
    /\ ~RangeHasNext(n_iter, max_iter)
    /\ pc' = "loop_end"
    /\ loop_exit' = "DONE"
    /\ UNCHANGED << config, args, max_iter, n_iter, intermediate_contexts,
                    all_retrieved_results, token_usage, has_enough_info,
                    iter_locals, ret, calls, spent, picked, synth_in >>

\* _retrieve_and_answer, lines 137-146: the collections to search
Route ==
    /\ pc = "route"
    /\ IF route_collection
       THEN \E o \in ListOutcomes(store, dimension), t \in TokensOf(world) :
            \E reply \in UNION { Reply(x) : x \in RouteRepliesOf(world) } :
              LET r == RouterInvoke(world, o.infos, reply, t)
              IN /\ calls' = BumpIf(Bump(calls, "list"), "route", r.chat)
                 /\ \/ /\ r.err = "none"
                       /\ \E sel \in r.sels :
                            /\ selected_collections' = sel
                            /\ run_log' =
                                 [run_log EXCEPT
                                    !.sel = sel,
                                    !.failed = o.failed,
                                    !.infos = o.infos]
                       /\ consume_tokens' = r.tokens
                       /\ ra_results' = << >>
                       /\ spent' = spent + r.tokens
                       /\ pc' = "search"
                       /\ UNCHANGED << config, args, loop_locals,
                                       followup_query, n_token0,
                                       intermediate_answer, retrieved_results,
                                       n_token1, supported_retrieved_results,
                                       n_token2, ret, picked, synth_in >>
                    \/ /\ r.chat
                       /\ Raise("route", IF r.err = "none" THEN "call" ELSE r.err)
       ELSE /\ selected_collections' = all_collections
            /\ run_log' = [run_log EXCEPT !.sel = all_collections]
            /\ consume_tokens' = 0
            /\ ra_results' = << >>
            /\ pc' = "search"
            /\ UNCHANGED << config, args, loop_locals, followup_query,
                            n_token0, intermediate_answer, retrieved_results,
                            n_token1, supported_retrieved_results, n_token2,
                            ret, calls, spent, picked, synth_in >>

\* _retrieve_and_answer, line 153: all_retrieved_results.extend(...)
ExtendFront(all, found) == found \o all
Extend(all, found) == all \o found

\* _retrieve_and_answer, lines 147-153: one pass of the loop over the
\* selected collections: embed the query, search the collection
Search ==
    /\ pc = "search"
    /\ selected_collections # << >>
    /\ UNCHANGED calls
    /\ \/ \E r \in SearchData(world, store, Head(selected_collections)) :
            /\ ra_results' = Extend(ra_results, r.found)
            /\ selected_collections' = Tail(selected_collections)
            /\ run_log' = [run_log EXCEPT
                             !.searched = Append(@, Head(selected_collections)),
                             !.found = Append(@, r.found),
                             !.embeds = @ + 1,
                             !.failed = @ \/ r.failed]
            /\ UNCHANGED << config, pc, args, loop_locals, followup_query,
                            n_token0, consume_tokens, intermediate_answer,
                            retrieved_results, n_token1,
                            supported_retrieved_results, n_token2, ret, spent,
                            picked, synth_in >>
       \/ Raise("embed", "call")

\* _retrieve_and_answer, lines 147-154: the loop over the selected
\* collections has ended when line 154 runs
JoinedEarly(remaining) == TRUE
Joined(remaining) == remaining = << >>

\* _retrieve_and_answer, lines 154-170: deduplicate, intermediate answer
Answer ==
    /\ pc = "search"
    /\ Joined(selected_collections)
    /\ calls' = Bump(calls, "answer")
    /\ \/ \E a \in AnswersOf(world), t \in TokensOf(world) : \E r \in Reply(a) :
            /\ intermediate_answer' = remove_think(r)
            /\ retrieved_results' = deduplicate_results(ra_results)
            /\ n_token1' = consume_tokens + t
            /\ ra_results' = << >>
            /\ consume_tokens' = 0
            /\ spent' = spent + t
            /\ pc' = "supported"
            /\ UNCHANGED << config, args, loop_locals, followup_query,
                            n_token0, selected_collections,
                            supported_retrieved_results, n_token2, run_log,
                            ret, picked, synth_in >>
       \/ Raise("answer", "call")

\* retrieve, lines 250-259: the statements that follow _get_supported_docs,
\* in the order of the source
AfterFilterRecordFirst(p) ==
    CASE p = "supported" -> "record"
      [] p = "record" -> "merge"
      [] p = "merge" -> "cost"
      [] OTHER -> "loop"
AfterFilter(p) ==
    CASE p = "supported" -> "merge"
      [] p = "merge" -> "record"
      [] p = "record" -> "cost"
      [] OTHER -> "loop"

\* retrieve, lines 250-253: _get_supported_docs
Supported ==
    /\ pc = "supported"
    /\ \E t \in TokensOf(world) :
       \E reply \in UNION { Reply(x) : x \in FilterRepliesOf(world) } :
         LET r == GetSupportedDocs(retrieved_results, intermediate_answer, reply, t)
         IN /\ calls' = BumpIf(calls, "filter", r.chat)
            /\ \/ /\ r.err = "none"
                  /\ supported_retrieved_results' = r.docs
                  /\ n_token2' = r.tokens
                  /\ spent' = spent + r.tokens
                  /\ picked' = [n |-> picked.n + Len(r.docs),
                                keys |-> picked.keys \cup Keys(r.docs),
                                docs |-> picked.docs \cup Docs(r.docs)]
                  /\ pc' = AfterFilter("supported")
                  /\ UNCHANGED << config, args, loop_locals, followup_query,
                                  n_token0, selected_collections, ra_results,
                                  consume_tokens, intermediate_answer,
                                  retrieved_results, n_token1, run_log, ret,
                                  synth_in >>
               \/ /\ r.chat
                  /\ Raise("filter", IF r.err = "none" THEN "call" ELSE r.err)

\* retrieve, line 254: all_retrieved_results.extend(supported_retrieved_results)
Merge ==
    /\ pc = "merge"
    /\ all_retrieved_results' =
         all_retrieved_results \o supported_retrieved_results
    /\ pc' = AfterFilter("merge")
    /\ UNCHANGED << config, args, max_iter, n_iter, intermediate_contexts,
                    token_usage, has_enough_info, loop_exit, iter_locals, ret,
                    calls, spent, picked, synth_in >>

\* retrieve, lines 255-258: the record of this iteration is appended
AppendContextReplace(contexts, query, answer) ==
    << Context(1, query, answer) >>
AppendContextFront(contexts, query, answer) ==
    << Context(Len(contexts) + 1, query, answer) >> \o contexts
AppendContext(contexts, query, answer) ==
    Append(contexts, Context(Len(contexts) + 1, query, answer))

\* retrieve, lines 255-258: intermediate_contexts.append(...)
Record ==
    /\ pc = "record"
    /\ intermediate_contexts' =
         AppendContext(intermediate_contexts, followup_query,
                       intermediate_answer)
    /\ pc' = AfterFilter("record")
    /\ UNCHANGED << config, args, max_iter, n_iter, all_retrieved_results,
                    token_usage, has_enough_info, loop_exit, iter_locals, ret,
                    calls, spent, picked, synth_in >>

\* retrieve, line 259: token_usage += n_token0 + n_token1 + n_token2
AccumulateNoFilter(usage, t0, t1, t2) == usage + t0 + t1
Accumulate(usage, t0, t1, t2) == usage + t0 + t1 + t2

\* retrieve, lines 259-261: the cost of the iteration is added; the locals
\* of the iteration are dead from here on
Cost ==
    /\ pc = "cost"
    /\ token_usage' = Accumulate(token_usage, n_token0, n_token1, n_token2)
    /\ NoIteration
    /\ pc' = IF early_stopping THEN "check" ELSE "loop"
    /\ UNCHANGED << config, args, max_iter, n_iter, intermediate_contexts,
                    all_retrieved_results, has_enough_info, loop_exit, ret,
                    calls, spent, picked, synth_in >>

\* retrieve, lines 262-271: the convergence check and the break
Check ==
    /\ pc = "check"
    /\ \E t \in TokensOf(world) :
       \E reply \in UNION { Reply(x) : x \in ReflectionRepliesOf(world) } :
         LET r == CheckHasEnoughInfo(intermediate_contexts, reply, t)
         IN /\ calls' = BumpIf(calls, "check", r.chat)
            /\ \/ /\ has_enough_info' = r.has
                  /\ token_usage' = token_usage + r.tokens
                  /\ spent' = spent + r.tokens
                  /\ pc' = IF BreakOn(r.has) THEN "loop_end" ELSE "loop"
                  /\ loop_exit' =
                       IF BreakOn(r.has) THEN "STOPPED_EARLY" ELSE loop_exit
                  /\ UNCHANGED << config, args, max_iter, n_iter,
                                  intermediate_contexts, all_retrieved_results,
                                  iter_locals, ret, picked, synth_in >>
               \/ /\ r.chat
                  /\ Raise("check", "call")

\* retrieve, line 273: the pool that is returned
FinalEvidenceNoDedup(pool) == pool
FinalEvidence(pool) == deduplicate_results(pool)

\* retrieve, lines 273-275, and query, lines 293-294
LoopEnd ==
    /\ pc = "loop_end"
    /\ all_retrieved_results' = FinalEvidence(all_retrieved_results)
    /\ IF op = "retrieve"
       THEN /\ pc' = "complete"
            /\ ret' = [op |-> "retrieve", raised |-> FALSE,
                       evidence |-> all_retrieved_results',
                       tokens |-> token_usage,
                       contexts |-> intermediate_contexts]
       ELSE /\ pc' = "synthesize"
            /\ UNCHANGED ret
    /\ UNCHANGED << config, args, max_iter, n_iter, intermediate_contexts,
                    token_usage, has_enough_info, loop_exit, iter_locals,
                    calls, spent, picked, synth_in >>

\* query, line 304: the records handed to the final-answer prompt
PromptContextsLast(contexts) ==
    IF contexts = << >> THEN << >> ELSE << contexts[Len(contexts)] >>
PromptContexts(contexts) == contexts

\* query, line 315: n_token_retrieval + chat_response.total_tokens
TotalCost(retrieval, t) == retrieval + t

\* query, lines 298-316: the final answer
Synthesize ==
    /\ pc = "synthesize"
    /\ calls' = Bump(calls, "synth")
    /\ \/ \E a \in FinalAnswers, t \in TokensOf(world) : \E r \in Reply(a) :
            /\ synth_in' = [given |-> TRUE, docs |-> all_retrieved_results,
                            contexts |-> PromptContexts(intermediate_contexts)]
            /\ ret' = [op |-> "query", raised |-> FALSE,
                       answer |-> remove_think(r),
                       evidence |-> all_retrieved_results,
                       tokens |-> TotalCost(token_usage, t)]
            /\ spent' = spent + t
            /\ pc' = "complete"
            /\ UNCHANGED << config, args, loop_locals, iter_locals, picked >>
       \/ Raise("synth", "call")

\* the record lists _check_has_enough_info is called with directly
CheckInputs == { << >>, << Context(1, "q1", << "2015" >>) >> }

\* _check_has_enough_info called on its own
DirectCheck ==
    /\ pc \in Idle
    /\ \E contexts \in CheckInputs, t \in TokensOf(world) :
       \E reply \in UNION { Reply(x) : x \in ReflectionRepliesOf(world) } :
         LET r == CheckHasEnoughInfo(contexts, reply, t)
         IN /\ calls' = BumpIf(NoCalls, "check", r.chat)
            /\ \/ /\ ret' = [op |-> "_check_has_enough_info",
                             raised |-> FALSE, contexts |-> contexts,
                             reply |-> reply, has |-> r.has,
                             tokens |-> r.tokens]
                  /\ spent' = r.tokens
                  /\ pc' = "complete"
               \/ /\ r.chat
                  /\ ret' = [op |-> "_check_has_enough_info",
                             raised |-> TRUE, at |-> "check",
                             cause |-> "call", contexts |-> contexts]
                  /\ spent' = 0
                  /\ pc' = "raised"
    /\ op' = "_check_has_enough_info"
    /\ kw_max_iter' = << >>
    /\ max_iter' = 0
    /\ n_iter' = 0
    /\ intermediate_contexts' = << >>
    /\ all_retrieved_results' = << >>
    /\ token_usage' = 0
    /\ has_enough_info' = FALSE
    /\ loop_exit' = "none"
    /\ NoIteration
    /\ picked' = NoPicked
    /\ synth_in' = NoSynth
    /\ UNCHANGED config

\* a method other than retrieve / query is called on its own: no frame of
\* retrieve exists
NoRetrieveFrame ==
    /\ kw_max_iter' = << >>
    /\ max_iter' = 0
    /\ n_iter' = 0
    /\ intermediate_contexts' = << >>
    /\ all_retrieved_results' = << >>
    /\ token_usage' = 0
    /\ has_enough_info' = FALSE
    /\ loop_exit' = "none"
    /\ NoIteration
    /\ picked' = NoPicked
    /\ synth_in' = NoSynth
    /\ UNCHANGED config

\* CollectionRouter.invoke called on its own, with the dimension of the
\* embedding model. The method reads the store and its arguments only, so it
\* is called on the object as constructed.
DirectInvoke ==
    /\ pc = "idle"
    /\ \E q \in SubQueries, o \in ListOutcomes(store, dimension),
          t \in TokensOf(world) :
       \E reply \in UNION { Reply(x) : x \in RouteRepliesOf(world) } :
         LET r == RouterInvoke(world, o.infos, reply, t)
             infos == o.infos
         IN /\ calls' = BumpIf(Bump(NoCalls, "list"), "route", r.chat)
            /\ \/ /\ r.err = "none"
                  /\ \E sel \in r.sels :
                       ret' = [op |-> "invoke", raised |-> FALSE, query |-> q,
                               infos |-> infos, reply |-> reply,
                               selected |-> sel, tokens |-> r.tokens]
                  /\ spent' = r.tokens
                  /\ pc' = "complete"
               \/ /\ r.chat
                  /\ ret' = [op |-> "invoke", raised |-> TRUE, at |-> "route",
                             cause |-> IF r.err = "none" THEN "call" ELSE r.err,
                             query |-> q, infos |-> infos, reply |-> reply]
                  /\ spent' = 0
                  /\ pc' = "raised"
    /\ op' = "invoke"
    /\ NoRetrieveFrame

\* the deduplicated lists _get_supported_docs is called with directly: none,
\* three and five documents
FilterInputs == { << >>, << D1, D4, D3 >>, << D1, D4, D3, D5, D6 >> }

\* _get_supported_docs called on its own; it reads its arguments only, so it
\* is called on the object as constructed
DirectFilter ==
    /\ pc = "idle"
    /\ \E results \in FilterInputs, a \in AnswersOf(world),
          t \in TokensOf(world) :
       \E reply \in UNION { Reply(x) : x \in FilterRepliesOf(world) } :
         LET r == GetSupportedDocs(results, a, reply, t)
         IN /\ calls' = BumpIf(NoCalls, "filter", r.chat)
            /\ \/ /\ r.err = "none"
                  /\ ret' = [op |-> "_get_supported_docs", raised |-> FALSE,
                             results |-> results, intermediate_answer |-> a,
                             reply |-> reply, docs |-> r.docs,
                             tokens |-> r.tokens]
                  /\ spent' = r.tokens
                  /\ pc' = "complete"
               \/ /\ r.chat
                  /\ ret' = [op |-> "_get_supported_docs", raised |-> TRUE,
                             at |-> "filter",
                             cause |-> IF r.err = "none" THEN "call" ELSE r.err,
                             results |-> results, intermediate_answer |-> a,
                             reply |-> reply]
                  /\ spent' = 0
                  /\ pc' = "raised"
    /\ op' = "_get_supported_docs"
    /\ NoRetrieveFrame

\* The store is a server shared with the processes that load it: its
\* collections are created and dropped by calls of the store wrapper that
\* are no part of a call of the agent, at any point of a running one.

\* the collections the store is asked to create or drop, by double
StoreNamesOf(w) == IF w = "empty" THEN { "src", "news" } ELSE { "news" }
\* the description a collection is created with
DescriptionOf(name) == IF name = "src" THEN "filings" ELSE "press"

\* Milvus.clear_db is called
ClearDb ==
    /\ \E c \in StoreNamesOf(world) : store' \in clear_db(world, store, c)
    /\ UNCHANGED << world, all_collections, self_max_iter, early_stopping,
                    route_collection, pc, args, loop_locals, iter_locals, ret,
                    calls, spent, picked, synth_in >>

\* the chunks insert_data is called with: none, or the corpus of the double
\* for the collection
ChunkLists == { << >>, << "corpus" >> }

\* how many times the corpus is inserted into one collection at most
MaxCopies == 2
\* against the doubles whose calls run several iterations a collection is
\* loaded once
MaxCopiesOf(w) ==
    IF w \in { "docs", "empty", "faulty" } THEN 1 ELSE MaxCopies

\* Milvus.insert_data is called
InsertData ==
    /\ \E c \in StoreNamesOf(world), chunks \in ChunkLists :
         /\ \/ chunks = << >>
            \/ Copies(store, NamedCollection(c)) < MaxCopiesOf(world)
         /\ store' \in insert_data(world, store, c, chunks)
    /\ UNCHANGED << world, all_collections, self_max_iter, early_stopping,
                    route_collection, pc, args, loop_locals, iter_locals, ret,
                    calls, spent, picked, synth_in >>

\* Milvus.init_collection is called with the dimension of the embedding
\* model
InitCollection ==
    /\ \E c \in StoreNamesOf(world), force \in BOOLEAN :
         store' \in init_collection(world, store, dimension, c,
                                    DescriptionOf(c), force)
    /\ UNCHANGED << world, all_collections, self_max_iter, early_stopping,
                    route_collection, pc, args, loop_locals, iter_locals, ret,
                    calls, spent, picked, synth_in >>

Step ==
    \/ Decompose
    \/ LoopDone
    \/ Route
    \/ Search
    \/ Answer
    \/ Supported
    \/ Merge
    \/ Record
    \/ Cost
    \/ Check
    \/ LoopEnd
    \/ Synthesize

Next ==
    \/ \E o \in Ops, kw \in KwMaxIterOf(world) : Call(o, kw)
    \/ DirectCheck
    \/ DirectInvoke
    \/ DirectFilter
    \/ ClearDb
    \/ InitCollection
    \/ InsertData
    \/ Step

Spec == Init /\ [][Next]_vars

\* a call that has been entered runs on: the loop is sequential code that
\* blocks only inside its external calls, which are taken to return
FairSpec == Spec /\ WF_vars(Step)

\* ------------------------------------------------------------- properties
Running == op \in Ops /\ pc \notin Idle
Returned == op \in Ops /\ pc = "complete"

\* the maximum in force for the running call, as the caller sees it
InForce == IF Len(kw_max_iter) = 1 THEN kw_max_iter[1] ELSE self_max_iter

IsPrefix(a, b) == Len(a) <= Len(b) /\ SubSeq(b, 1, Len(a)) = a

\* C1: in every call of retrieve and of query the number of iterations
\* executed (loop bodies entered, decomposer calls issued, records written)
\* never exceeds the maximum in force: the max_iter passed to the call when
\* one is passed, the configured max_iter otherwise.
C1_IterationsWithinMax ==
    op \in Ops =>
      /\ n_iter <= InForce
      /\ calls["decompose"] <= InForce
      /\ Len(intermediate_contexts) <= InForce

\* a call with an override above the configured maximum ran up to the override
C1_Witness ==
    /\ Returned
    /\ kw_max_iter = << MaxIterBound >>
    /\ self_max_iter < MaxIterBound
    /\ n_iter = MaxIterBound

\* C2 (as claimed): a query whose external calls all return without error
\* reaches COMPLETE, whether or not early stopping is enabled or ever fires,
\* and the loop is left only by exhausting the iteration count or by an early
\* stop. A call that ends by an exception does so only for a failed call or
\* for a structured reply that does not parse.
GenerationFailure == { "call", "parse" }
C2_Terminates ==
    /\ (op = "query" /\ pc = "loop")
         ~> \/ pc = "complete"
            \/ pc = "raised" /\ ret.cause \in GenerationFailure
    /\ [][ (pc # "loop_end" /\ pc' = "loop_end") =>
             \/ n_iter' = max_iter'
             \/ early_stopping /\ loop_exit' = "STOPPED_EARLY" ]_vars

\* C3: at the end of every iteration k the record list has exactly k
\* entries and the k-th record carries index k; inside iteration k the list
\* still has k - 1 entries; what retrieve returns has one record per iteration
\* executed.
C3_RecordGrowth ==
    Running \/ Returned =>
      /\ \A k \in 1..Len(intermediate_contexts) :
           intermediate_contexts[k].idx = k
      /\ pc \in { "cost", "loop", "check", "loop_end", "synthesize",
                   "complete" } =>
           Len(intermediate_contexts) = n_iter
      /\ pc \in { "route", "search", "supported", "merge", "record" } =>
           Len(intermediate_contexts) = n_iter - 1
      /\ (pc = "complete" /\ op = "retrieve") =>
           Len(ret.contexts) = n_iter

\* retrieve returned after MaxIterBound iterations
C3_Witness ==
    /\ pc = "complete"
    /\ op = "retrieve"
    /\ n_iter = MaxIterBound
    /\ Len(ret.contexts) = MaxIterBound

\* C4: while retrieve / query runs, every step leaves the earlier record
\* list a prefix of the later one (the convergence check and the synthesis
\* included), and what retrieve hands back is that list.
C4_AppendOnly ==
    [][ (Running /\ pc' # "raised") =>
          /\ IsPrefix(intermediate_contexts, intermediate_contexts')
          /\ (pc' = "complete" /\ op = "retrieve") =>
               ret'.contexts = intermediate_contexts ]_vars

\* a query completed with two records whose answers differ
C4_Witness ==
    /\ pc = "complete"
    /\ op = "query"
    /\ Len(intermediate_contexts) >= 2
    /\ intermediate_contexts[1].answer # intermediate_contexts[2].answer

\* C5: the evidence returned by retrieve and by query has no two entries
\* with the same (reference, text) key, and holds every key the filter
\* selected during the call (so: each exactly once).
C5_EvidenceDeduplicated ==
    Returned =>
      /\ NoDuplicates(ret.evidence)
      /\ Keys(ret.evidence) = picked.keys

\* the filter selected more entries than there are keys: the same document
\* was selected more than once
C5_Witness ==
    /\ Returned
    /\ n_iter >= 2
    /\ picked.n > Len(ret.evidence)
    /\ Len(ret.evidence) >= 2

\* the loop of retrieve has ended and its frame is still there
LoopOver == op \in Ops /\ pc \in { "loop_end", "synthesize", "complete" }
InLoop ==
    /\ op \in Ops
    /\ pc \in { "loop", "route", "search", "supported", "merge", "record",
                "cost", "check" }

\* C6 (as claimed): the loop ends with fewer than max_iter iterations
\* executed if and only if early stopping is enabled and the convergence
\* check returned true for the iteration just completed.
C6_EarlyExitIff ==
    LoopOver =>
      ((n_iter < max_iter) <=> (early_stopping /\ has_enough_info))

\* C6 (amended): the loop ends with fewer than max_iter iterations executed
\* only if early stopping is enabled and the convergence check returned true
\* for the iteration just completed, and it does so whenever that happens
\* before iteration max_iter; a true reply breaks the loop at once (no step of
\* a later iteration runs: as many decomposer and intermediate-answer calls
\* as records); with early stopping disabled the convergence check is never
\* called and exactly max_iter iterations run.
C6_EarlyExit ==
    /\ LoopOver =>
         /\ (n_iter < max_iter) => (early_stopping /\ has_enough_info)
         /\ (early_stopping /\ has_enough_info) =>
              /\ loop_exit = "STOPPED_EARLY"
              /\ calls["decompose"] = Len(intermediate_contexts)
              /\ calls["answer"] = Len(intermediate_contexts)
              /\ calls["check"] = Len(intermediate_contexts)
         /\ ~early_stopping => n_iter = max_iter
         /\ ~has_enough_info => n_iter = max_iter
    /\ InLoop => ~has_enough_info
    /\ (op \in Ops /\ ~early_stopping) => calls["check"] = 0

\* the loop was left by an early stop before max_iter iterations had run
C6_Witness ==
    /\ LoopOver
    /\ loop_exit = "STOPPED_EARLY"
    /\ n_iter = 1
    /\ max_iter = MaxIterBound

\* C7: _check_has_enough_info called with an empty record list returns
\* (False, 0) and issues no generation call, and the loop is left by an early
\* stop only with at least one record written.
C7_EarlyStopFloor ==
    /\ (pc = "complete" /\ op = "_check_has_enough_info"
          /\ ret.contexts = << >>) =>
         (~ret.has /\ ret.tokens = 0 /\ calls["check"] = 0 /\ spent = 0)
    /\ loop_exit = "STOPPED_EARLY" => Len(intermediate_contexts) >= 1

\* the check was called with no record and a reply that says yes
C7_Witness ==
    /\ pc = "complete"
    /\ op = "_check_has_enough_info"
    /\ ret.contexts = << >>
    /\ ret.reply.text = YES

\* a reply that is "yes" in any letter case between two runs of whitespace
\* y Y, e E, s S
YesLetters == << { 121, 89 }, { 101, 69 }, { 115, 83 } >>
TrimsAndFoldsToYes(text) ==
    \E a \in 0..Len(text) :
      /\ a + 3 <= Len(text)
      /\ \A i \in 1..a : text[i] \in Whitespace
      /\ \A i \in 1..3 : text[a + i] \in YesLetters[i]
      /\ \A i \in (a + 4)..Len(text) : text[i] \in Whitespace

\* the replies the specification lists as not affirmative
NotAffirmative ==
    { << 89, 101, 115, 44, 32, 108, 105, 107, 101, 108, 121 >>,    \* "Yes, likely"
      << 89, 101, 115, 44, 32, 112, 114, 111, 98, 97, 98, 108, 121 >>,    \* "Yes, probably"
      << >>,
      NO_WORD }

\* C8: for a non-empty record list _check_has_enough_info returns true
\* exactly when the reply (its text after the reasoning block) is "yes" once
\* surrounding whitespace is trimmed and letter case is folded; "Yes,
\* likely", "Yes, probably", "" and "no" yield false; the call costs what the
\* reply reports.
C8_StrictYes ==
    (pc = "complete" /\ op = "_check_has_enough_info"
       /\ ret.contexts # << >>) =>
      /\ ret.has <=> TrimsAndFoldsToYes(ret.reply.text)
      /\ ret.reply.text \in NotAffirmative => ~ret.has
      /\ calls["check"] = 1
      /\ ret.tokens = spent

\* the check accepted " YES\n"
C8_Witness ==
    /\ pc = "complete"
    /\ op = "_check_has_enough_info"
    /\ ret.contexts # << >>
    /\ ret.reply.text = << 32, 89, 69, 83, 10 >>
    /\ ret.has

\* C9: a query that returns has issued the final-answer call exactly once,
\* after the loop ended, over the deduplicated pool it returns and all the
\* records in order; before that, and in retrieve, the call is not issued.
C9_SynthesizeOnce ==
    /\ (pc = "complete" /\ op = "query") =>
         /\ calls["synth"] = 1
         /\ loop_exit \in { "DONE", "STOPPED_EARLY" }
         /\ synth_in.given
         /\ synth_in.docs = ret.evidence
         /\ NoDuplicates(synth_in.docs)
         /\ Keys(synth_in.docs) = picked.keys
         /\ synth_in.contexts = intermediate_contexts
         /\ Len(synth_in.contexts) = n_iter
    /\ (op = "query" /\ pc \notin { "complete", "raised" }) =>
         (calls["synth"] = 0 /\ ~synth_in.given)
    /\ op = "retrieve" => (calls["synth"] = 0 /\ ~synth_in.given)

\* a query completed with records written and evidence in the pool
C9_Witness ==
    /\ pc = "complete"
    /\ op = "query"
    /\ synth_in.given
    /\ Len(synth_in.contexts) = MaxIterBound
    /\ Len(synth_in.docs) >= 1

\* a query completed without a single iteration
C9_WitnessZero ==
    /\ pc = "complete"
    /\ op = "query"
    /\ n_iter = 0
    /\ calls["synth"] = 1

\* C10: the cost that query and retrieve return is the sum of the
\* total_tokens of every generation call issued during the call, each once;
\* between iterations the running cost is that sum as well.
C10_TotalCost ==
    /\ Returned => ret.tokens = spent
    /\ (op \in Ops /\ pc \in { "loop", "loop_end", "synthesize" }) =>
         token_usage = spent

\* a query returned a cost to which all six kinds of call contributed, one of
\* them more than one token
C10_Witness ==
    /\ pc = "complete"
    /\ op = "query"
    /\ \A k \in Kinds : calls[k] >= 1
    /\ ret.tokens >
         calls["decompose"] + calls["route"] + calls["answer"]
           + calls["filter"] + calls["check"] + calls["synth"]

\* --------------------------------------------------- router, retriever, filter
\* CollectionRouter.invoke, called on its own, has returned or raised
InvokeOver == op = "invoke" /\ pc \in { "complete", "raised" }
\* _get_supported_docs, called on its own, has returned or raised
FilterOver == op = "_get_supported_docs" /\ pc \in { "complete", "raised" }

Range(q) == { q[i] : i \in 1..Len(q) }

\* C11: when the store enumerates no collection, CollectionRouter.invoke
\* returns ([], 0) for every query, issues no generation call and does not
\* raise; inside retrieve / query the run is then given nothing to search and
\* no routing cost.
C11_ZeroPartitions ==
    /\ [] ( (InvokeOver /\ ret.infos = << >>) =>
              /\ pc = "complete"
              /\ ret.selected = << >>
              /\ ret.tokens = 0
              /\ calls["route"] = 0
              /\ spent = 0 )
    /\ [] ( (op \in Ops /\ pc = "search" /\ route_collection
               /\ run_log.infos = << >>) =>
              /\ run_log.sel = << >>
              /\ consume_tokens = 0 )
    /\ [][ (op \in Ops /\ pc = "route" /\ pc' = "search" /\ route_collection
              /\ run_log'.infos = << >>) =>
             /\ calls'["route"] = calls["route"]
             /\ spent' = spent ]_vars

\* invoke returned for the second query against the empty store
C11_Witness ==
    /\ InvokeOver
    /\ store = << >>
    /\ ret.infos = << >>
    /\ ret.query = "q2"
    /\ ret.selected = << >>

\* C12: when the store enumerates exactly one collection,
\* CollectionRouter.invoke returns exactly that collection with cost 0 and
\* issues no generation call, whatever the query is.
C12_SinglePartition ==
    /\ [] ( (InvokeOver /\ Len(ret.infos) = 1) =>
              /\ pc = "complete"
              /\ ret.selected = << ret.infos[1].collection_name >>
              /\ ret.tokens = 0
              /\ calls["route"] = 0
              /\ spent = 0 )
    /\ [] ( (op \in Ops /\ pc = "search" /\ route_collection
               /\ Len(run_log.infos) = 1) =>
              /\ run_log.sel = << run_log.infos[1].collection_name >>
              /\ consume_tokens = 0 )
    /\ [][ (op \in Ops /\ pc = "route" /\ pc' = "search" /\ route_collection
              /\ Len(run_log'.infos) = 1) =>
             /\ calls'["route"] = calls["route"]
             /\ spent' = spent ]_vars

\* invoke returned the only collection of the store for the second query
C12_Witness ==
    /\ InvokeOver
    /\ store = StoreSingle
    /\ ret.query = "q2"
    /\ ret.selected = << "src" >>

\* the enumerated collections without a description
Undescribed(infos) ==
    { infos[i].collection_name :
        i \in { k \in 1..Len(infos) : infos[k].description = "" } }

\* C13 (as claimed): with two or more collections enumerated, the selection
\* holds every collection without a description and the default collection,
\* whatever the model selected, and no name twice.
C13_OverlayAlwaysDefault ==
    (InvokeOver /\ pc = "complete" /\ Len(ret.infos) >= 2) =>
      /\ Undescribed(ret.infos) \subseteq Range(ret.selected)
      /\ default_collection \in Range(ret.selected)
      /\ Cardinality(Range(ret.selected)) = Len(ret.selected)

\* C13 (amended): with two or more collections enumerated, the selection
\* holds every enumerated collection without a description, holds the default
\* collection whenever that is among the enumerated ones, holds every name the
\* model selected, and holds no name twice.
C13_Overlay ==
    (InvokeOver /\ pc = "complete" /\ Len(ret.infos) >= 2) =>
      /\ Undescribed(ret.infos) \subseteq Range(ret.selected)
      /\ default_collection \in Names(ret.infos) =>
           default_collection \in Range(ret.selected)
      /\ Range(ret.reply.text.val) \subseteq Range(ret.selected)
      /\ Cardinality(Range(ret.selected)) = Len(ret.selected)
      /\ ret.tokens = spent
      /\ calls["route"] = 1

\* the model selected nothing and the overlay added the default collection
\* and the one without a description
C13_Witness ==
    /\ InvokeOver
    /\ pc = "complete"
    /\ Len(ret.infos) = 3
    /\ ret.reply.text = Lit(<< >>)
    /\ Range(ret.selected) = { "src", "misc" }

\* C14: a generation failure is fatal and is not retried. The step that
\* fails has issued its call once and nothing else; the call that ended by it
\* hands back no evidence, record or answer; nothing of the call runs after
\* it (the next step is a new call); and a reply to the routing or the
\* supported-documents prompt that is no list ends the method by that failure.
C14_GenerationFailureFatal ==
    /\ [] ( (op \in Ops /\ pc = "raised" /\ ret.cause \in GenerationFailure) =>
              /\ DOMAIN ret = { "op", "raised", "at", "cause" }
              /\ intermediate_contexts = << >>
              /\ all_retrieved_results = << >>
              /\ ~synth_in.given )
    /\ [] ( (FilterOver /\ ~HasSentinel(ret.intermediate_answer)
               /\ ret.reply.text.kind # "list") =>
              /\ pc = "raised"
              /\ ret.cause \in GenerationFailure
              /\ calls["filter"] = 1 )
    /\ [] ( (InvokeOver /\ Len(ret.infos) >= 2
               /\ ret.reply.text.kind # "list") =>
              /\ pc = "raised"
              /\ ret.cause \in GenerationFailure
              /\ calls["route"] = 1 )
    /\ [][ /\ (pc # "raised" /\ pc' = "raised" /\ op' \in Ops
                 /\ ret'.at \in Kinds) =>
               \A k \in Kinds : calls'[k] = Bump(calls, ret'.at)[k]
           /\ (pc = "raised" /\ op' \in Ops /\ store' = store) =>
               (pc' = "loop" /\ n_iter' = 0 /\ calls' = NoCalls) ]_vars

\* a query was ended, in its second iteration, by a reply to the
\* supported-documents prompt that is no list
C14_Witness ==
    /\ op = "query"
    /\ pc = "raised"
    /\ ret.at = "filter"
    /\ ret.cause = "parse"
    /\ calls["filter"] = 2

\* a Retriever run of retrieve / query has produced its intermediate answer
RunOver == op \in Ops /\ pc = "supported"

\* C15 (as claimed): an error of a collection search or of the enumeration
\* of the collections aborts the operation: once a call of the store client
\* has raised, no intermediate answer is produced.
C15_RetrievalErrorFatal ==
    (op \in Ops /\ run_log.failed) => pc # "supported"

\* C16 (as claimed): a Retriever run over one or more selected collections
\* has called embed_query exactly once.
C16_EmbedOnce ==
    (RunOver /\ Len(run_log.sel) >= 1) => run_log.embeds = 1

\* the concatenation of a sequence of lists
Concat(lists) ==
    LET F[i \in 0..Len(lists)] ==
          IF i = 0 THEN << >> ELSE F[i - 1] \o lists[i]
    IN F[Len(lists)]

\* the first position of a key in a list that holds it
FirstAt(L, key) ==
    CHOOSE i \in 1..Len(L) :
      /\ Key(L[i]) = key
      /\ \A j \in 1..(i - 1) : Key(L[j]) # key

\* E holds, for every key of L, the first entry of L with that key, in the
\* order of these first entries
IsFirstOccurrences(E, L) ==
    /\ NoDuplicates(E)
    /\ Keys(E) = Keys(L)
    /\ \A k \in 1..Len(E) : E[k] = L[FirstAt(L, Key(E[k]))]
    /\ \A k, l \in 1..Len(E) :
         k < l => FirstAt(L, Key(E[k])) < FirstAt(L, Key(E[l]))

\* C17: the evidence list of a Retriever run is the concatenation of the
\* results of the searches, one per selected collection in the order of the
\* selection, with later entries of an already seen (reference, text) key
\* removed; it is thereby a function of the selection list and of the
\* per-collection results.
C17_EvidenceOrder ==
    /\ [] ( RunOver =>
              /\ run_log.searched = run_log.sel
              /\ Len(run_log.found) = Len(run_log.sel)
              /\ IsFirstOccurrences(retrieved_results, Concat(run_log.found)) )
    /\ [] ( (op \in Ops /\ pc = "search") =>
              /\ run_log.searched \o selected_collections = run_log.sel
              /\ Len(run_log.found) = Len(run_log.searched)
              /\ ra_results = Concat(run_log.found) )
    /\ [][ (op \in Ops /\ pc = "search" /\ pc' = "search"
              /\ run_log' # run_log) =>
             LET i == Len(run_log.found) + 1
             IN /\ Len(run_log'.found) = i
                /\ SubSeq(run_log'.found, 1, i - 1) = run_log.found
                /\ run_log'.sel = run_log.sel
                /\ run_log'.searched = Append(run_log.searched, run_log.sel[i])
                /\ ra_results' = ra_results \o run_log'.found[i] ]_vars

\* the selection put news before src, and the entry of news was kept for
\* the key both collections returned
C17_Witness ==
    /\ RunOver
    /\ world = "docs"
    /\ run_log.sel = << "news", "src" >>
    /\ retrieved_results = << D2, D3, D4 >>

\* C18 (as claimed): with no collection in the store, a Retriever run hands
\* back no evidence and the sentinel as its intermediate answer.
C18_EmptyStoreSentinel ==
    (RunOver /\ store = << >>) =>
      /\ retrieved_results = << >>
      /\ intermediate_answer = << SENTINEL >>

\* C19 (as claimed): _get_supported_docs returns ([], 0) without a
\* generation call when the intermediate answer equals the sentinel, and
\* issues exactly one generation call for any other intermediate answer.
C19_SentinelEquals ==
    FilterOver =>
      IF ret.intermediate_answer = << SENTINEL >>
      THEN /\ pc = "complete"
           /\ ret.docs = << >>
           /\ ret.tokens = 0
           /\ calls["filter"] = 0
      ELSE calls["filter"] = 1

\* C19 (amended): _get_supported_docs returns ([], 0) without a generation
\* call when the intermediate answer contains the sentinel (the answer that
\* equals it included), and issues exactly one generation call for an
\* intermediate answer that does not contain it.
C19_SentinelContained ==
    FilterOver =>
      IF Contains(ret.intermediate_answer, SENTINEL)
      THEN /\ pc = "complete"
           /\ ret.docs = << >>
           /\ ret.tokens = 0
           /\ calls["filter"] = 0
           /\ spent = 0
      ELSE calls["filter"] = 1

\* the filter returned without a call for an answer that holds the sentinel
\* inside a longer sentence
C19_Witness ==
    /\ FilterOver
    /\ pc = "complete"
    /\ ret.intermediate_answer = << "Sorry. ", SENTINEL, " in the documents." >>
    /\ ret.results # << >>
    /\ calls["filter"] = 0

\* the generation call of _get_supported_docs returned a list of integers
FilterParsed ==
    /\ FilterOver
    /\ ~HasSentinel(ret.intermediate_answer)
    /\ ret.reply.text.kind = "list"
    /\ pc = "raised" => ret.cause # "call"

\* the indices of a reply below the length of the evidence list
BelowLen(idx, n) == SelectSeq(idx, LAMBDA i : i < n)

\* C20 (as claimed): for an evidence list of length n and a reply that is a
\* list of integers, _get_supported_docs returns the entries at the 0-based
\* indices i < n of the reply, in reply order, and nothing for the others.
C20_InRangeIndices ==
    FilterParsed =>
      LET kept == BelowLen(ret.reply.text.val, Len(ret.results))
      IN /\ pc = "complete"
         /\ Len(ret.docs) = Len(kept)
         /\ \A k \in 1..Len(kept) :
              /\ kept[k] \in 0..(Len(ret.results) - 1)
              /\ ret.docs[k] = ret.results[kept[k] + 1]

\* the part of C20 that holds: a reply without negative indices
FilterInRangeNonNegative ==
    (FilterParsed /\ \A i \in Range(ret.reply.text.val) : i >= 0) =>
      LET kept == BelowLen(ret.reply.text.val, Len(ret.results))
      IN /\ pc = "complete"
         /\ ret.docs = [k \in 1..Len(kept) |-> ret.results[kept[k] + 1]]
         /\ (Len(ret.results) = 5 /\ ret.reply.text.val = << 1, 3, 99 >>) =>
              ret.docs = << ret.results[2], ret.results[4] >>

\* ------------------------------------------------------- pool, order, store
\* C21 (as claimed): from the merge of an iteration's supported evidence on
\* (the convergence check and the next iterations included) the pool of the
\* running call has no two entries with the same (reference, text) key.
C21_PoolDeduplicatedInLoop ==
    (op \in Ops /\ pc \in { "check", "loop", "loop_end", "synthesize",
                            "complete" }) =>
      NoDuplicates(all_retrieved_results)

\* what holds of the pool: it is deduplicated once the loop is over, when
\* retrieve returns it
PoolDeduplicatedAtReturn ==
    (op \in Ops /\ pc \in { "synthesize", "complete" }) =>
      NoDuplicates(all_retrieved_results)

\* the phase of the running call
Phase ==
    CASE pc = "loop" /\ n_iter = 0 -> "INIT"
      [] pc = "loop" /\ n_iter > 0 -> "ITERATING"
      [] pc \in { "route", "search", "supported", "merge", "record", "cost",
                  "check" } -> "ITERATING"
      [] pc = "loop_end" -> loop_exit
      [] pc = "synthesize" -> "SYNTHESIZING"
      [] pc = "complete" -> "COMPLETE"
      [] OTHER -> "NONE"

PhaseRank(p) ==
    CASE p = "INIT" -> 0
      [] p = "ITERATING" -> 1
      [] p \in { "DONE", "STOPPED_EARLY" } -> 2
      [] p = "SYNTHESIZING" -> 3
      [] p = "COMPLETE" -> 4
      [] OTHER -> -1

\* the positions that may follow a position of a running call
NextPcs(p) ==
    CASE p = "loop" -> { "route", "loop_end" }
      [] p = "route" -> { "search" }
      [] p = "search" -> { "search", "supported" }
      [] p = "supported" -> { "merge" }
      [] p = "merge" -> { "record" }
      [] p = "record" -> { "cost" }
      [] p = "cost" -> { "check", "loop" }
      [] p = "check" -> { "loop", "loop_end" }
      [] p = "loop_end" -> { "synthesize", "complete" }
      [] p = "synthesize" -> { "complete" }
      [] OTHER -> { }

\* the cost of the running iteration that line 259 has yet to add
Unaccounted == n_token0 + n_token1 + n_token2

\* C22: the steps of a call run in a fixed order. Inside iteration i + 1
\* the decomposer has been handed exactly the i records written so far and
\* runs before routing and retrieval, these before the filter; the filter
\* has returned when the pool is merged, the pool is merged when the record
\* is appended, the record is appended when the cost is accumulated, and
\* each of these steps changes nothing but its own variable; the
\* convergence check runs only when enabled and after all of them; the
\* phases INIT, ITERATING, DONE or STOPPED_EARLY, SYNTHESIZING, COMPLETE are
\* passed in this order, none twice.
C22_StepOrder ==
    /\ [] ( (op \in Ops /\ pc \in { "route", "search", "supported" }) =>
              /\ run_log.asked = intermediate_contexts
              /\ Len(run_log.asked) = n_iter - 1
              /\ calls["decompose"] = n_iter
              /\ calls["answer"] = IF pc = "supported" THEN n_iter
                                   ELSE n_iter - 1
              /\ calls["filter"] <= n_iter - 1
              /\ Len(all_retrieved_results) = picked.n
              /\ supported_retrieved_results = << >>
              /\ n_token2 = 0 )
    /\ [] ( (op \in Ops /\ pc = "merge") =>
              /\ calls["answer"] = n_iter
              /\ Len(all_retrieved_results) + Len(supported_retrieved_results)
                   = picked.n
              /\ Len(intermediate_contexts) = n_iter - 1
              /\ token_usage + Unaccounted = spent )
    /\ [] ( (op \in Ops /\ pc = "record") =>
              /\ Len(all_retrieved_results) = picked.n
              /\ Len(intermediate_contexts) = n_iter - 1
              /\ token_usage + Unaccounted = spent )
    /\ [] ( (op \in Ops /\ pc = "cost") =>
              /\ Len(all_retrieved_results) = picked.n
              /\ Len(intermediate_contexts) = n_iter
              /\ token_usage + Unaccounted = spent )
    /\ [] ( (op \in Ops /\ pc = "check") =>
              /\ early_stopping
              /\ Len(intermediate_contexts) = n_iter
              /\ Len(all_retrieved_results) = picked.n
              /\ token_usage = spent
              /\ calls["check"] = n_iter - 1 )
    /\ [][ (Running /\ pc' # "raised" /\ store' = store) =>
             /\ pc' \in NextPcs(pc)
             /\ PhaseRank(Phase') >= PhaseRank(Phase)
             /\ (pc = "loop_end" /\ pc' = "synthesize") => op = "query"
             /\ (pc = "loop_end" /\ pc' = "complete") => op = "retrieve"
             /\ (pc = "loop" /\ pc' = "route") =>
                  (n_iter' = n_iter + 1 /\ Len(intermediate_contexts) = n_iter)
             /\ (pc = "supported") =>
                  /\ calls'["filter"] <= n_iter
                  /\ UNCHANGED << all_retrieved_results,
                                  intermediate_contexts, token_usage >>
             /\ (pc = "merge") =>
                  /\ all_retrieved_results' =
                       all_retrieved_results \o supported_retrieved_results
                  /\ UNCHANGED << intermediate_contexts, token_usage >>
             /\ (pc = "record") =>
                  /\ Len(intermediate_contexts') = n_iter
                  /\ IsPrefix(intermediate_contexts, intermediate_contexts')
                  /\ UNCHANGED << all_retrieved_results, token_usage >>
             /\ (pc = "cost") =>
                  /\ token_usage' = spent
                  /\ (pc' = "check" <=> early_stopping)
                  /\ UNCHANGED << all_retrieved_results,
                                  intermediate_contexts >> ]_vars

\* the decomposer of the last iteration was handed the records of all the
\* iterations before, and the iteration has reached the filter
C22_Witness ==
    /\ op = "query"
    /\ pc = "cost"
    /\ early_stopping
    /\ n_iter = MaxIterBound
    /\ Len(run_log.asked) = MaxIterBound - 1
    /\ supported_retrieved_results # << >>
    /\ Len(all_retrieved_results) > Len(supported_retrieved_results)

\* C23: the deduplication pass and the intermediate-answer call of a
\* Retriever run start only when the search of every selected collection has
\* returned: while a search is outstanding neither has run, and what is
\* deduplicated holds the results of all the searches.
C23_SearchesJoined ==
    /\ [] ( (op \in Ops /\ pc = "search") =>
              /\ calls["answer"] = n_iter - 1
              /\ retrieved_results = << >>
              /\ Len(run_log.found) + Len(selected_collections)
                   = Len(run_log.sel) )
    /\ [] ( RunOver =>
              /\ selected_collections = << >>
              /\ Len(run_log.found) = Len(run_log.sel)
              /\ Keys(retrieved_results) = Keys(Concat(run_log.found)) )
    /\ [][ (op \in Ops /\ pc = "search" /\ pc' = "supported") =>
             /\ selected_collections = << >>
             /\ Len(run_log.found) = Len(run_log.sel)
             /\ calls'["answer"] = calls["answer"] + 1 ]_vars

\* two collections were searched and the evidence holds entries of both
C23_Witness ==
    /\ RunOver
    /\ Len(run_log.sel) = 2
    /\ Len(run_log.found) = 2
    /\ run_log.found[1] = << D1, D4 >>
    /\ run_log.found[2] = << D2, D3 >>
    /\ retrieved_results = << D1, D4, D3 >>

\* C24 (as claimed): a call of retrieve / query that routes its sub-queries
\* has invoked the enumeration of the store's collections exactly once when it
\* returns.
C24_EnumeratedOnce ==
    (Returned /\ route_collection /\ n_iter >= 1) => calls["list"] = 1

\* what holds instead: one enumeration per iteration when routing, none
\* when routing is bypassed
EnumeratedPerIteration ==
    Returned => calls["list"] = IF route_collection THEN n_iter ELSE 0

\* the names of the collections the store holds with the dimension of the
\* embedding model, in the store's order
Registered ==
    [i \in 1..Len(list_collections(store, dimension)) |->
       list_collections(store, dimension)[i].collection_name]

\* C25 (as claimed): with routing bypassed no routing call is made, the
\* routing cost is 0 and every iteration is given to search every collection
\* the store holds at that time.
C25_BypassSearchesAll ==
    (op \in Ops /\ ~route_collection /\ pc \in { "search", "supported" }) =>
      /\ calls["route"] = 0
      /\ calls["list"] = 0
      /\ pc = "search" => consume_tokens = 0
      /\ run_log.sel = Registered

\* what holds instead: the iteration is given the list cached when the
\* agent was constructed
BypassSearchesCached ==
    (op \in Ops /\ ~route_collection /\ pc \in { "search", "supported" }) =>
      /\ calls["route"] = 0
      /\ calls["list"] = 0
      /\ pc = "search" => consume_tokens = 0
      /\ run_log.sel = all_collections

\* -------------------------------------------------- out-of-range, unknown names
\* the indices of a reply that are positions of an evidence list of length n
InRange(idx, n) == SelectSeq(idx, LAMBDA i : i \in 0..(n - 1))

\* the reply of the generation call names an index that is no position
OutOfRangeReply ==
    /\ FilterParsed
    /\ \E i \in Range(ret.reply.text.val) : i \notin 0..(Len(ret.results) - 1)

\* C26 (as claimed): a reply that parses to a list of integers and names an
\* index outside 0..n-1, negative ones included, raises nothing and selects
\* nothing for that index: the returned list is the entries at the named
\* positions within 0..n-1.
C26_OutOfRangeAbsorbed ==
    OutOfRangeReply =>
      LET named == InRange(ret.reply.text.val, Len(ret.results))
      IN /\ pc = "complete"
         /\ ret.docs = [k \in 1..Len(named) |-> ret.results[named[k] + 1]]

\* what holds instead: only the indices at or above n are absorbed
LargeIndicesAbsorbed ==
    (OutOfRangeReply /\ \A i \in Range(ret.reply.text.val) : i >= 0) =>
      LET named == InRange(ret.reply.text.val, Len(ret.results))
      IN /\ pc = "complete"
         /\ ret.docs = [k \in 1..Len(named) |-> ret.results[named[k] + 1]]

\* C27 (as claimed): every name in the selection CollectionRouter.invoke
\* returns is the name of a collection enumerated in that call, and every
\* collection an iteration searches is one its routing call enumerated.
C27_SelectionRegistered ==
    /\ (InvokeOver /\ pc = "complete") =>
         Range(ret.selected) \subseteq Names(ret.infos)
    /\ (op \in Ops /\ route_collection /\ pc \in { "search", "supported" }) =>
         Range(run_log.sel) \subseteq Names(run_log.infos)

\* what holds instead: a returned name is enumerated or named by the reply
SelectionEnumeratedOrReplied ==
    (InvokeOver /\ pc = "complete" /\ Len(ret.infos) >= 2) =>
      Range(ret.selected) \subseteq
        Names(ret.infos) \cup Range(literal_eval(ret.reply).val)

\* ------------------------------------------------------- evidence provenance
\* the entries a step appended to the pool of the running call
Added == SubSeq(all_retrieved_results', Len(all_retrieved_results) + 1,
                Len(all_retrieved_results'))

\* C28: every entry of the pool, and of the evidence a call returns, was
\* selected by the filter during this call; the entries an iteration adds are
\* among those its own searches returned; an iteration whose filter
\* short-circuited (no generation call) adds none; entering retrieve or query
\* starts from an empty pool.
C28_EvidenceProvenance ==
    /\ [] /\ (op \in Ops /\ pc # "raised") =>
               Range(all_retrieved_results) \subseteq picked.docs
          /\ Returned => Range(ret.evidence) \subseteq picked.docs
    /\ [][ (pc = "supported" /\ pc' = "merge") =>
             /\ Range(supported_retrieved_results')
                  \subseteq Range(retrieved_results)
             /\ picked'.docs =
                  picked.docs \cup Range(supported_retrieved_results')
             /\ ( \/ Contains(intermediate_answer, SENTINEL)
                  \/ calls'["filter"] = calls["filter"] ) =>
                  supported_retrieved_results' = << >>
         ]_vars
    /\ [][ (pc = "merge" /\ pc' = "record") =>
             /\ SubSeq(all_retrieved_results', 1, Len(all_retrieved_results))
                  = all_retrieved_results
             /\ Added = supported_retrieved_results
             /\ Range(Added) \subseteq Range(retrieved_results)
             /\ Range(retrieved_results) \subseteq Range(Concat(run_log.found))
             /\ Range(Added) \subseteq picked.docs
         ]_vars
    /\ [][ (Running /\ pc \notin { "merge", "loop_end" } /\ pc' # "raised") =>
             all_retrieved_results' = all_retrieved_results ]_vars
    /\ [][ (pc \in Idle /\ pc' = "loop") =>
             all_retrieved_results' = << >> /\ picked'.docs = { } ]_vars

\* a second call returned evidence after an iteration whose filter
\* short-circuited on retrieved passages
C28_Witness ==
    /\ Returned
    /\ ret.evidence # << >>
    /\ n_iter >= 2
    /\ calls["filter"] < n_iter

\* ------------------------------------------------- prompts and their parsers
\* _check_has_enough_info returned on a non-empty record list
CheckOver ==
    /\ op = "_check_has_enough_info"
    /\ pc = "complete"
    /\ ret.contexts # << >>

\* C29 (as claimed): when the model replies with exactly the affirmative word
\* REFLECTION_PROMPT asks for, _check_has_enough_info returns True.
C29_PromptWordAffirms ==
    (CheckOver /\ remove_think(ret.reply) = PROMPT_YES) => ret.has

\* what holds instead: True exactly for a reply that strips and lowers to
\* the English word yes
AffirmsOnYes ==
    CheckOver => (ret.has <=> lower(strip(remove_think(ret.reply))) = YES)

\* C30 (as claimed): when the intermediate answer is exactly the phrase
\* INTERMEDIATE_ANSWER_PROMPT asks for when nothing is found, the filter
\* returns ([], 0) without a generation call.
C30_PromptPhraseShortCircuits ==
    (FilterOver /\ ret.intermediate_answer = << PROMPT_NO_INFO >>) =>
      /\ pc = "complete"
      /\ ret.docs = << >>
      /\ ret.tokens = 0
      /\ calls["filter"] = 0

\* what holds instead: the phrase of the prompt takes the generation call
PromptPhraseCallsModel ==
    (FilterOver /\ ret.intermediate_answer = << PROMPT_NO_INFO >>) =>
      calls["filter"] = 1

====
